---- MODULE Spec2Model ----
(***************************************************************************)
(* Canonical LR(1) parser generator and table-driven parser               *)
(* (multila-parser-generator): rules, FIRST sets, item sets and state      *)
(* graph, table assembly, and the parse loop with its callbacks.           *)
(***************************************************************************)
EXTENDS Integers, Sequences, FiniteSets, TLC

(***************************************************************************)
(* Bounds of the model.                                                    *)
(***************************************************************************)
\* longest enumerated token string handed to parse (END not counted)
MaxInputLen == 3
\* calcTable calls on one generator in the regeneration specification
MaxCalc == 2

(***************************************************************************)
(* JavaScript containers.  A Set<string> iterates in insertion order, so   *)
(* it is a sequence without repetitions; an object used as a dictionary is *)
(* a function on its keys.                                                 *)
(***************************************************************************)
Range(s) == {s[i] : i \in 1..Len(s)}

SetAdd(s, x) == IF x \in Range(s) THEN s ELSE Append(s, x)

RECURSIVE SetUnion(_, _)
SetUnion(a, b) ==
  IF b = <<>> THEN a ELSE SetUnion(SetAdd(a, Head(b)), Tail(b))

Max(a, b) == IF a >= b THEN a ELSE b

(***************************************************************************)
(* Rules (lr1rule).                                                        *)
(***************************************************************************)
Terminal == "T"
NonTerminal == "NT"

\* a rule item of a given type and value
RuleItem(type, value) == [type |-> type, value |-> value]

\* new LR1_Rule(lhs)
NewRule(lhs) == [index |-> -1, lhs |-> lhs, rhs |-> <<>>, callBackId |-> ""]

addTerminalItem(r, s) == [r EXCEPT !.rhs = Append(@, RuleItem(Terminal, s))]

addNonTerminalItem(r, s) == [r EXCEPT !.rhs = Append(@, RuleItem(NonTerminal, s))]

(***************************************************************************)
(* Tokens of the token source.  The type tag is the key under which the    *)
(* table is consulted for token classes.                                   *)
(***************************************************************************)
\* col tells tokens of equal text apart: the place of the token in its source
Tok(type, token, value) == [type |-> type, token |-> token, value |-> value, col |-> 0]
EndToken == Tok("END", "", 0)

\* the current token of a source at position pos (END once the source is used up)
getToken(src, pos) == IF pos <= Len(src) THEN src[pos] ELSE EndToken

isEND(src, pos) == getToken(src, pos).type = "END"

isTER(src, pos, t) ==
  /\ getToken(src, pos).type \in {"TER", "DEL", "ID"}
  /\ getToken(src, pos).token = t

isID(src, pos) == getToken(src, pos).type = "ID"

isSTR(src, pos) == getToken(src, pos).type = "STR"

\* advancing never leaves the END token
next(src, pos) == IF pos <= Len(src) THEN pos + 1 ELSE pos

(***************************************************************************)
(* The rule language (parseRules).  A parser state is the rule list built  *)
(* so far, the position in the source and whether the lexer has raised.    *)
(***************************************************************************)
TokenClasses == {"INT", "REAL", "HEX", "ID", "STR"}

\* parseItem: one item appended to the last rule of rs
parseItem(src, st) ==
  LET n == Len(st.rules)
      tk == getToken(src, st.pos)
  IN  IF \E c \in TokenClasses : isTER(src, st.pos, c)
        THEN [st EXCEPT !.rules[n] = addTerminalItem(@, tk.token),
                        !.pos = next(src, st.pos)]
      ELSE IF isID(src, st.pos)
        THEN [st EXCEPT !.rules[n] = addNonTerminalItem(@, tk.token),
                        !.pos = next(src, st.pos)]
      ELSE IF isSTR(src, st.pos)
        THEN [st EXCEPT !.rules[n] = addTerminalItem(@, ":" \o tk.token),
                        !.pos = next(src, st.pos)]
      ELSE [st EXCEPT !.ok = FALSE]

RECURSIVE parseItems(_, _)
parseItems(src, st) ==
  IF ~st.ok THEN st
  ELSE IF /\ ~isTER(src, st.pos, "|")
          /\ ~isTER(src, st.pos, ";")
          /\ ~isTER(src, st.pos, "->")
    THEN parseItems(src, parseItem(src, st))
  ELSE st

\* parseRhs: a new rule for lhs, its items, and the optional callback
parseRhs(lhs, src, st0) ==
  LET st1 == parseItems(src, [st0 EXCEPT !.rules = Append(@, NewRule(lhs))])
      n == Len(st1.rules)
      p == next(src, st1.pos)
  IN  IF ~st1.ok THEN st1
      ELSE IF isTER(src, st1.pos, "->")
        THEN IF isID(src, p)
               THEN [st1 EXCEPT !.rules[n].callBackId = getToken(src, p).token,
                                !.pos = next(src, p)]
               ELSE [st1 EXCEPT !.pos = p, !.ok = FALSE]
      ELSE st1

\* the alternatives after the first, each taking over the callback of the
\* rule before it when it names none
RECURSIVE parseAlternatives_inheritCallback(_, _, _)
parseAlternatives_inheritCallback(lhs, src, st) ==
  IF ~st.ok THEN st
  ELSE IF isTER(src, st.pos, "|")
    THEN LET prev == st.rules[Len(st.rules)].callBackId
             nxt == parseRhs(lhs, src, [st EXCEPT !.pos = next(src, st.pos)])
             n == Len(nxt.rules)
         IN  parseAlternatives_inheritCallback(lhs, src,
               IF nxt.ok /\ nxt.rules[n].callBackId = ""
                 THEN [nxt EXCEPT !.rules[n].callBackId = prev]
                 ELSE nxt)
  ELSE st

\* the alternatives after the first
RECURSIVE parseAlternatives(_, _, _)
parseAlternatives(lhs, src, st) ==
  IF ~st.ok THEN st
  ELSE IF isTER(src, st.pos, "|")
    THEN parseAlternatives(lhs, src,
                           parseRhs(lhs, src, [st EXCEPT !.pos = next(src, st.pos)]))
  ELSE st

\* parseRule: ID "=" rhs { "|" rhs } ";"
parseRule(src, st) ==
  LET lhs == getToken(src, st.pos).token
      p1 == next(src, st.pos)
  IN  IF ~isID(src, st.pos) THEN [st EXCEPT !.ok = FALSE]
      ELSE IF ~isTER(src, p1, "=") THEN [st EXCEPT !.pos = p1, !.ok = FALSE]
      ELSE LET st2 == parseAlternatives(lhs, src,
                        parseRhs(lhs, src, [st EXCEPT !.pos = next(src, p1)]))
           IN  IF ~st2.ok THEN st2
               ELSE IF isTER(src, st2.pos, ";")
                 THEN [st2 EXCEPT !.pos = next(src, st2.pos)]
               ELSE [st2 EXCEPT !.ok = FALSE]

RECURSIVE parseRuleLoop(_, _)
parseRuleLoop(src, st) ==
  IF st.ok /\ ~isEND(src, st.pos) THEN parseRuleLoop(src, parseRule(src, st)) ELSE st

\* parseRules: the rule list is emptied, then filled rule by rule
parseRules(src) == parseRuleLoop(src, [rules |-> <<>>, pos |-> 1, ok |-> TRUE])

(***************************************************************************)
(* Rule sources in the rule language, as the lexer delivers them.          *)
(***************************************************************************)
I(x) == Tok("ID", x, 0)
S(x) == Tok("STR", x, 0)
D(x) == Tok("DEL", x, 0)
Arrow == Tok("TER", "->", 0)

\* test/example.js: the arithmetic grammar
SrcArith ==
  << I("term"), D("="), I("add"), D(";"),
     I("add"), D("="), I("add"), S("+"), I("mul"), Arrow, I("callbackAdd"),
       D("|"), I("mul"), D(";"),
     I("mul"), D("="), I("mul"), S("*"), I("unary"), Arrow, I("callbackMultiply"),
       D("|"), I("unary"), D(";"),
     I("unary"), D("="), I("INT"), Arrow, I("callbackConst"),
       D("|"), S("("), I("add"), S(")"), D(";") >>

\* README: z = s; s = s "b"; s = "b" a "a"; a = "a" s "c"; a = "a";
\* a = "a" s INT -> blub;
SrcBlub ==
  << I("z"), D("="), I("s"), D(";"),
     I("s"), D("="), I("s"), S("b"), D(";"),
     I("s"), D("="), S("b"), I("a"), S("a"), D(";"),
     I("a"), D("="), S("a"), I("s"), S("c"), D(";"),
     I("a"), D("="), S("a"), D(";"),
     I("a"), D("="), S("a"), I("s"), I("INT"), Arrow, I("blub"), D(";") >>

\* x = x "a";
SrcLeftRec == << I("x"), D("="), I("x"), S("a"), D(";") >>

\* s = s; s = "a";
SrcSelf == << I("s"), D("="), I("s"), D(";"), I("s"), D("="), S("a"), D(";") >>

\* z = s; s = x | y; x = "a" -> f; y = "a" -> g;
SrcReduceReduce ==
  << I("z"), D("="), I("s"), D(";"),
     I("s"), D("="), I("x"), D("|"), I("y"), D(";"),
     I("x"), D("="), S("a"), Arrow, I("f"), D(";"),
     I("y"), D("="), S("a"), Arrow, I("g"), D(";") >>

\* z = e; e = e "+" e | "a";
SrcShiftReduce ==
  << I("z"), D("="), I("e"), D(";"),
     I("e"), D("="), I("e"), S("+"), I("e"), D("|"), S("a"), D(";") >>

\* z = e; e = e "+" e | "a" | x "c" | y "c"; x = "b"; y = "b";
SrcBothConflicts ==
  << I("z"), D("="), I("e"), D(";"),
     I("e"), D("="), I("e"), S("+"), I("e"), D("|"), S("a"),
       D("|"), I("x"), S("c"), D("|"), I("y"), S("c"), D(";"),
     I("x"), D("="), S("b"), D(";"),
     I("y"), D("="), S("b"), D(";") >>

\* s = s "a" | "b";
SrcRootRec ==
  << I("s"), D("="), I("s"), S("a"), D("|"), S("b"), D(";") >>

\* s = a; a = b; b = c; c = a "x" | "d";
SrcUnitChain ==
  << I("s"), D("="), I("a"), D(";"),
     I("a"), D("="), I("b"), D(";"),
     I("b"), D("="), I("c"), D(";"),
     I("c"), D("="), I("a"), S("x"), D("|"), S("d"), D(";") >>

\* z = s "a";  (s has no rule)
SrcUndefined == << I("z"), D("="), I("s"), S("a"), D(";") >>

\* s = "a" | "b";
SrcTwoStart == << I("s"), D("="), S("a"), D("|"), S("b"), D(";") >>

\* z = p -> f; p = "a" p "b" -> g | q "c" -> g | INT q ID -> f; q = "b";
SrcCallbacks ==
  << I("z"), D("="), I("p"), Arrow, I("f"), D(";"),
     I("p"), D("="), S("a"), I("p"), S("b"), Arrow, I("g"),
       D("|"), I("q"), S("c"), Arrow, I("g"),
       D("|"), I("INT"), I("q"), I("ID"), Arrow, I("f"), D(";"),
     I("q"), D("="), S("b"), D(";") >>

\* z = k; k = ID "x" | "a" "d" | "3" "x" | "x" INT;
SrcKeyOrder ==
  << I("z"), D("="), I("k"), D(";"),
     I("k"), D("="), I("ID"), S("x"),
       D("|"), S("a"), S("d"),
       D("|"), S("3"), S("x"),
       D("|"), S("x"), I("INT"), D(";") >>

\* z = "b" s; s = a; a = b; b = c; c = a "x" | "d";
SrcChainInside ==
  << I("z"), D("="), S("b"), I("s"), D(";"),
     I("s"), D("="), I("a"), D(";"),
     I("a"), D("="), I("b"), D(";"),
     I("b"), D("="), I("c"), D(";"),
     I("c"), D("="), I("a"), S("x"), D("|"), S("d"), D(";") >>

\* z = s; s = x | y | "b" "c"; x = q; y = q; q = "a";
SrcLateConflict ==
  << I("z"), D("="), I("s"), D(";"),
     I("s"), D("="), I("x"), D("|"), I("y"), D("|"), S("b"), S("c"), D(";"),
     I("x"), D("="), I("q"), D(";"),
     I("y"), D("="), I("q"), D(";"),
     I("q"), D("="), S("a"), D(";") >>

\* the rule sources handed to parseRules
Sources ==
  << SrcArith, SrcBlub, SrcLeftRec, SrcSelf, SrcReduceReduce, SrcShiftReduce,
     SrcBothConflicts, SrcRootRec, SrcUnitChain, SrcUndefined, SrcTwoStart,
     SrcCallbacks, SrcKeyOrder, SrcChainInside, SrcLateConflict >>

\* the rule lists built rule by rule through addRule and the item methods
ApiTargets == {parseRules(SrcRootRec).rules, parseRules(SrcLeftRec).rules}

(***************************************************************************)
(* The generator's and the parser's state.                                 *)
(***************************************************************************)
VARIABLES
  ruleHeap,   \* every LR1_Rule object created so far, by identity
  rules,      \* LR1.rules: identities of the current rules, in order
  first,      \* LR1.first: non-terminal -> FIRST set
  stateHeap,  \* every LR1_State object created so far, by identity
  edgeHeap,   \* every LR1_Edge object created so far, by identity
  states,     \* LR1.states: identities of the admitted states, in order
  table,      \* LR1.table
  callBacks,  \* LR1.callBacks: the registered callback identifiers
  pc,         \* where the running call stands; "idle" between calls
  Q,          \* calcTable: the unprocessed states
  rowIdx,     \* calcTable: position of the row loop in LR1.states
  result,     \* how the last call ended
  calls,      \* calcTable calls made on this generator
  lastCalc,   \* how the last calcTable call ended
  firstTable, \* the rules and the table of the first calcTable call that returned
  input,      \* parse: the token source
  pos,        \* parse: position of the token source
  stack,      \* parse: the parse stack
  trace,      \* parse: callback invocations, in order
  aux,        \* the callbacks' auxiliary value stack (test/example.js)
  forest,     \* parse: the subtree built for each symbol slot of the stack
  actions,    \* parse: the shifts and reductions made, in order
  twin,       \* what an earlier run gave, kept for comparison (none: <<>>)
  waiting     \* a second parse call of the same generator, not at its turn

genVars == <<ruleHeap, rules, first, stateHeap, edgeHeap, states, table, Q, rowIdx>>
parseVars == <<input, pos, stack, trace, aux, forest, actions>>
vars == <<ruleHeap, rules, first, stateHeap, edgeHeap, states, table, callBacks,
          pc, Q, rowIdx, result, calls, lastCalc, firstTable, input, pos, stack, trace, aux, forest,
          actions, twin, waiting>>

RECURSIVE FoldSeq(_, _, _)
FoldSeq(Op(_, _), acc, s) ==
  IF s = <<>> THEN acc ELSE FoldSeq(Op, Op(acc, Head(s)), Tail(s))

\* names every object inherits: `key in obj` holds for them on an empty object
ObjectPrototypeKeys ==
  {"constructor", "toString", "valueOf", "hasOwnProperty", "isPrototypeOf",
   "propertyIsEnumerable", "toLocaleString", "__proto__"}

\* the JavaScript `key in dict`
In(key, dict) == key \in DOMAIN dict \/ key \in ObjectPrototypeKeys

\* dict[key] = value
Put(dict, key, value) == (key :> value) @@ dict

\* the rule objects of the current rule list, in order
Rules == [i \in 1..Len(rules) |-> ruleHeap[rules[i]]]

\* rules as parseRules left them (before calcTable set their indices)
Stripped(rs) == [i \in 1..Len(rs) |-> [rs[i] EXCEPT !.index = -1]]

(***************************************************************************)
(* FIRST sets (calcFirst).                                                 *)
(***************************************************************************)
\* FIRST sets start empty for each left-hand side that has none yet
initFirst(f, rule) == IF In(rule.lhs, f) THEN f ELSE Put(f, rule.lhs, <<>>)

\* one rule of one pass, a union with the set of a non-terminal not counted
\* as a change
firstStep_unionUnnoticed(acc, rule) ==
  IF Len(rule.rhs) = 0 THEN acc
  ELSE LET rhs0 == rule.rhs[1]
           old == acc.first[rule.lhs]
       IN  IF rhs0.type = NonTerminal
             THEN [first |-> Put(acc.first, rule.lhs, SetUnion(old, acc.first[rhs0.value])),
                   changed |-> acc.changed]
             ELSE [first |-> Put(acc.first, rule.lhs, SetAdd(old, rhs0.value)),
                   changed |-> acc.changed \/ rhs0.value \notin Range(old)]

\* one rule of one pass: acc is the map and whether the pass changed it
firstStep(acc, rule) ==
  IF Len(rule.rhs) = 0 THEN acc
  ELSE LET rhs0 == rule.rhs[1]
           old == acc.first[rule.lhs]
       IN  IF rhs0.type = NonTerminal
             THEN LET new == SetUnion(old, acc.first[rhs0.value])
                  IN  [first |-> Put(acc.first, rule.lhs, new),
                       changed |-> acc.changed \/ Len(new) > Len(old)]
             ELSE [first |-> Put(acc.first, rule.lhs, SetAdd(old, rhs0.value)),
                   changed |-> acc.changed \/ rhs0.value \notin Range(old)]

\* a single pass over the rules
firstLoop_onePass(f, rs) == FoldSeq(firstStep, [first |-> f, changed |-> FALSE], rs).first

RECURSIVE firstLoop(_, _)
firstLoop(f, rs) ==
  LET pass == FoldSeq(firstStep, [first |-> f, changed |-> FALSE], rs)
  IN  IF pass.changed THEN firstLoop(pass.first, rs) ELSE pass.first

\* calcFirst on the map f as it stands
calcFirst(f, rs) == firstLoop(FoldSeq(initFirst, f, rs), rs)

(***************************************************************************)
(* Items and states (lr1state).                                            *)
(***************************************************************************)
StateItem(rule, p, look) == [rule |-> rule, pos |-> p, lookAheadSet |-> look]

NewState == [index |-> -1, itemSet |-> <<>>, outEdges |-> <<>>, inEdges |-> <<>>]

\* LR1_StateItem.compareLookAhead
compareLookAhead(mine, l) ==
  /\ Len(mine) = Len(l)
  /\ \A i \in 1..Len(l) : l[i] \in Range(mine)

\* items taken for equal when rule and dot agree, whatever the lookaheads
itemEqual_coreOnly(a, b) ==
  /\ a.pos = b.pos
  /\ a.rule = b.rule

\* LR1_StateItem.equal
itemEqual(a, b) ==
  /\ a.pos = b.pos
  /\ a.rule = b.rule
  /\ compareLookAhead(a.lookAheadSet, b.lookAheadSet)

\* LR1_State.equal, on item sets
stateEqual(mine, other) ==
  LET n == Len(mine)
  IN  /\ n = Len(other)
      /\ \A i \in 1..n : \E j \in 1..n : itemEqual(mine[i], other[j])

\* positions of the items of itemSet with the core of newItem
sameCore(itemSet, newItem) ==
  {i \in 1..Len(itemSet) :
     itemSet[i].pos = newItem.pos /\ itemSet[i].rule = newItem.rule}

\* LR1_State.addItem: the item set afterwards (longer iff the item was new)
addItem(itemSet, newItem) ==
  LET hits == sameCore(itemSet, newItem)
  IN  IF hits = {} THEN Append(itemSet, newItem)
      ELSE LET i == CHOOSE k \in hits : \A m \in hits : k <= m
           IN  [itemSet EXCEPT ![i].lookAheadSet = SetUnion(@, newItem.lookAheadSet)]

\* the symbol right of the dot of an item that has one
atDot(item) == ruleHeap[item.rule].rhs[item.pos + 1]

dotNotAtEnd(item) == item.pos < Len(ruleHeap[item.rule].rhs)

\* lookahead of the added items, always inherited from `item`
closureLook_inherit(item) == item.lookAheadSet

\* lookahead of the items a closure step adds for `item`
closureLook(item) ==
  LET rhs == ruleHeap[item.rule].rhs
  IN  IF item.pos + 1 < Len(rhs)
        THEN LET b == rhs[item.pos + 2]
             IN  IF b.type = Terminal THEN <<b.value>>
                 ELSE IF b.value \in DOMAIN first THEN first[b.value] ELSE <<>>
        ELSE item.lookAheadSet

\* the new items one item contributes in a closure pass, in rule order
closureItemsOf(item) ==
  IF dotNotAtEnd(item) /\ atDot(item).type = NonTerminal
    THEN LET y == atDot(item).value
             look == closureLook(item)
             add(acc, rid) ==
               IF ruleHeap[rid].lhs = y
                 THEN Append(acc, StateItem(rid, 0, look)) ELSE acc
         IN  FoldSeq(add, <<>>, rules)
    ELSE <<>>

closureNewItems(itemSet) ==
  LET add(acc, item) == acc \o closureItemsOf(item)
  IN  FoldSeq(add, <<>>, itemSet)

\* the closure loop of calcItemSet: passes until no pass adds an item
RECURSIVE closureLoop(_)
closureLoop(itemSet) ==
  LET after == FoldSeq(addItem, itemSet, closureNewItems(itemSet))
  IN  IF Len(after) > Len(itemSet) THEN closureLoop(after) ELSE after

\* the symbols of a type right of the dots, in order of first appearance
successorSymbols(itemSet, type) ==
  LET add(acc, item) ==
        IF dotNotAtEnd(item) /\ atDot(item).type = type
          THEN SetAdd(acc, atDot(item).value) ELSE acc
  IN  FoldSeq(add, <<>>, itemSet)

\* the items of a successor: the dot moved over the symbol; ok is FALSE when
\* addItem reported an item twice
successorItems(itemSet, type, value) ==
  LET add(acc, item) ==
        IF dotNotAtEnd(item) /\ atDot(item).type = type /\ atDot(item).value = value
          THEN LET i == [item EXCEPT !.pos = @ + 1]
                   after == addItem(acc.items, i)
               IN  [items |-> after, ok |-> acc.ok /\ Len(after) > Len(acc.items)]
          ELSE acc
  IN  FoldSeq(add, [items |-> <<>>, ok |-> TRUE], itemSet)

\* one successor state and its edge: acc holds both heaps, the identity q of
\* the closed state, the successors made so far and whether the process lives
addSuccessor(acc, label) ==
  IF ~acc.ok THEN acc
  ELSE LET si == Len(acc.states) + 1
           e == Len(acc.edges) + 1
           its == successorItems(acc.states[acc.q].itemSet, label.type, label.value)
           new == [NewState EXCEPT !.inEdges = <<e>>, !.itemSet = its.items]
       IN  [acc EXCEPT
              !.states = Append([@ EXCEPT ![acc.q].outEdges = Append(@, e)], new),
              !.edges = Append(@, [src |-> acc.q, dest |-> si, label |-> label]),
              !.R = Append(@, si),
              !.ok = its.ok]

\* the successors for the non-terminals made before those for the terminals
calcItemSet_nonTerminalsFirst(sh, eh, q) ==
  LET closed == closureLoop(sh[q].itemSet)
      labels(type) ==
        LET syms == successorSymbols(closed, type)
        IN  [i \in 1..Len(syms) |-> RuleItem(type, syms[i])]
  IN  FoldSeq(addSuccessor,
              [states |-> [sh EXCEPT ![q].itemSet = closed], edges |-> eh,
               q |-> q, R |-> <<>>, ok |-> TRUE],
              labels(NonTerminal) \o labels(Terminal))

\* LR1_State.calcItemSet on the state of identity q
calcItemSet(sh, eh, q) ==
  LET closed == closureLoop(sh[q].itemSet)
      labels(type) ==
        LET syms == successorSymbols(closed, type)
        IN  [i \in 1..Len(syms) |-> RuleItem(type, syms[i])]
  IN  FoldSeq(addSuccessor,
              [states |-> [sh EXCEPT ![q].itemSet = closed], edges |-> eh,
               q |-> q, R |-> <<>>, ok |-> TRUE],
              labels(Terminal) \o labels(NonTerminal))

(***************************************************************************)
(* Admission of a state (LR1.addState).                                    *)
(***************************************************************************)
\* the search for an equal state looking at the last admitted state only
equalStates_lastOnly(sh, sts, sNew) ==
  SelectSeq(sts, LAMBDA s : /\ s = sts[Len(sts)]
                            /\ stateEqual(sh[s].itemSet, sh[sNew].itemSet))

\* the admitted states equal to the state of identity sNew, in admission order
equalStates(sh, sts, sNew) ==
  SelectSeq(sts, LAMBDA s : stateEqual(sh[s].itemSet, sh[sNew].itemSet))

\* an in-edge u of the folded state is pointed at s and kept unless s has it
redirectEdge(acc, u) ==
  LET eh == [acc.edges EXCEPT ![u].dest = acc.s]
      found == \E i \in 1..Len(acc.states[acc.s].inEdges) :
                 LET v == acc.states[acc.s].inEdges[i]
                 IN  /\ eh[u].src = eh[v].src
                     /\ eh[u].dest = eh[v].dest
                     /\ eh[u].label.type = eh[v].label.type
                     /\ eh[u].label.value = eh[v].label.value
  IN  [acc EXCEPT !.edges = eh,
                  !.states[acc.s].inEdges = IF found THEN @ ELSE Append(@, u)]

\* admission that numbers the states from 1
addState_countFromOne(sh, eh, sts, sNew) ==
  LET eq == equalStates(sh, sts, sNew)
  IN  IF eq # <<>>
        THEN LET r == FoldSeq(redirectEdge,
                              [states |-> sh, edges |-> eh, s |-> eq[1]],
                              sh[sNew].inEdges)
             IN  [states |-> r.states, edges |-> r.edges, admitted |-> sts,
                  added |-> FALSE]
        ELSE [states |-> [sh EXCEPT ![sNew].index = Len(sts) + 1], edges |-> eh,
              admitted |-> Append(sts, sNew), added |-> TRUE]

\* admission that numbers a state by its identity
addState_identityIndex(sh, eh, sts, sNew) ==
  LET eq == equalStates(sh, sts, sNew)
  IN  IF eq # <<>>
        THEN LET r == FoldSeq(redirectEdge,
                              [states |-> sh, edges |-> eh, s |-> eq[1]],
                              sh[sNew].inEdges)
             IN  [states |-> r.states, edges |-> r.edges, admitted |-> sts,
                  added |-> FALSE]
        ELSE [states |-> [sh EXCEPT ![sNew].index = sNew - 1], edges |-> eh,
              admitted |-> Append(sts, sNew), added |-> TRUE]

\* LR1.addState: both heaps and the admitted list afterwards, and the answer
addState(sh, eh, sts, sNew) ==
  LET eq == equalStates(sh, sts, sNew)
  IN  IF eq # <<>>
        THEN LET r == FoldSeq(redirectEdge,
                              [states |-> sh, edges |-> eh, s |-> eq[1]],
                              sh[sNew].inEdges)
             IN  [states |-> r.states, edges |-> r.edges, admitted |-> sts,
                  added |-> FALSE]
        ELSE [states |-> [sh EXCEPT ![sNew].index = Len(sts)], edges |-> eh,
              admitted |-> Append(sts, sNew), added |-> TRUE]

(***************************************************************************)
(* The table (lr1table) and its rows (the row loop of LR1.calcTable).      *)
(***************************************************************************)
NullTable == [isNull |-> TRUE, rows |-> <<>>]
NewTable == [isNull |-> FALSE, rows |-> <<>>]
NewRow == [actionEntries |-> <<>>, gotoEntries |-> <<>>]
TableEntry(shift, value) == [shift |-> shift, value |-> value]

\* one out-edge: a shift entry, and no entry for a non-terminal
rowEdgeStep_noGoto(acc, e) ==
  IF acc.outcome # "ok" THEN acc
  ELSE LET edge == edgeHeap[e]
           entry == TableEntry(TRUE, stateHeap[edge.dest].index)
       IN  IF edge.label.type = Terminal
             THEN IF In(edge.label.value, acc.row.actionEntries)
                    THEN [acc EXCEPT !.outcome = "exit"]
                    ELSE [acc EXCEPT !.row.actionEntries = Put(@, edge.label.value, entry)]
             ELSE acc

\* one out-edge: a shift entry or a goto entry; a taken key ends the process
rowEdgeStep(acc, e) ==
  IF acc.outcome # "ok" THEN acc
  ELSE LET edge == edgeHeap[e]
           entry == TableEntry(TRUE, stateHeap[edge.dest].index)
       IN  IF edge.label.type = Terminal
             THEN IF In(edge.label.value, acc.row.actionEntries)
                    THEN [acc EXCEPT !.outcome = "exit"]
                    ELSE [acc EXCEPT !.row.actionEntries = Put(@, edge.label.value, entry)]
             ELSE IF In(edge.label.value, acc.row.gotoEntries)
                    THEN [acc EXCEPT !.outcome = "exit"]
                    ELSE [acc EXCEPT !.row.gotoEntries = Put(@, edge.label.value, entry)]

\* LR1_State.calcReduceEntries: the entries by terminal, the terminals in the
\* order they were entered, and the two rules of a reduce/reduce conflict
calcReduceEntries(itemSet) ==
  LET perItem(acc, item) ==
        LET value == ruleHeap[item.rule].index
            perTerminal(a, terminal) ==
              IF a.thrown THEN a
              ELSE IF In(terminal, a.entries)
                THEN [a EXCEPT !.thrown = TRUE,
                               !.r1 = a.entries[terminal].value,
                               !.r2 = value]
              ELSE [a EXCEPT !.entries = Put(@, terminal, TableEntry(TRUE, value)),
                             !.keys = Append(@, terminal)]
        IN  IF item.pos = Len(ruleHeap[item.rule].rhs)
              THEN FoldSeq(perTerminal, acc, item.lookAheadSet)
              ELSE acc
  IN  FoldSeq(perItem,
              [entries |-> <<>>, keys |-> <<>>, thrown |-> FALSE, r1 |-> -1, r2 |-> -1],
              itemSet)

\* one reduce entry of acc.red, replacing the entry a taken key holds
rowReduceStep_overwrite(acc, terminal) ==
  IF acc.outcome # "ok" THEN acc
  ELSE [acc EXCEPT !.row.actionEntries =
                      Put(@, terminal, TableEntry(FALSE, acc.red[terminal].value))]

\* one reduce entry of acc.red; a taken key ends the process
rowReduceStep(acc, terminal) ==
  IF acc.outcome # "ok" THEN acc
  ELSE IF In(terminal, acc.row.actionEntries)
    THEN [acc EXCEPT !.outcome = "exit"]
  ELSE [acc EXCEPT !.row.actionEntries =
                      Put(@, terminal, TableEntry(FALSE, acc.red[terminal].value))]

\* the row of the admitted state of identity s: the row as far as it was
\* filled, and whether the loop goes on ("ok"), the process ended ("exit") or
\* calcReduceEntries raised ("throw", with the two rule indices)
buildRow(s) ==
  LET a == FoldSeq(rowEdgeStep, [row |-> NewRow, outcome |-> "ok"], stateHeap[s].outEdges)
      red == calcReduceEntries(stateHeap[s].itemSet)
  IN  IF a.outcome # "ok" THEN [row |-> a.row, outcome |-> a.outcome, r1 |-> -1, r2 |-> -1]
      ELSE IF red.thrown
        THEN [row |-> a.row, outcome |-> "throw", r1 |-> red.r1, r2 |-> red.r2]
      ELSE LET b == FoldSeq(rowReduceStep,
                            [row |-> a.row, outcome |-> "ok", red |-> red.entries],
                            red.keys)
           IN  [row |-> b.row, outcome |-> b.outcome, r1 |-> -1, r2 |-> -1]

(***************************************************************************)
(* How a call ended.                                                       *)
(***************************************************************************)
Result(op, kind, msg) ==
  [op |-> op, kind |-> kind, msg |-> msg, nt |-> "", r1 |-> -1, r2 |-> -1]

Init ==
  /\ ruleHeap = <<>>
  /\ rules = <<>>
  /\ first = <<>>
  /\ stateHeap = <<>>
  /\ edgeHeap = <<>>
  /\ states = <<>>
  /\ table = NullTable
  /\ callBacks = {}
  /\ pc = "idle"
  /\ Q = <<>>
  /\ rowIdx = 0
  /\ result = Result("new", "ok", "")
  /\ calls = 0
  /\ lastCalc = Result("calcTable", "none", "")
  /\ firstTable = <<>>
  /\ input = <<>>
  /\ pos = 1
  /\ stack = <<>>
  /\ trace = <<>>
  /\ aux = <<>>
  /\ forest = <<>>
  /\ actions = <<>>
  /\ twin = <<>>
  /\ waiting = <<>>

(***************************************************************************)
(* Building the rule list.                                                 *)
(***************************************************************************)
\* parseRules(src): the rule list is replaced by new rule objects
ParseRulesCall(src) ==
  LET r == parseRules(src)
      n == Len(ruleHeap)
  IN  /\ ruleHeap' = ruleHeap \o r.rules
      /\ rules' = [i \in 1..Len(r.rules) |-> n + i]
      /\ result' = Result("parseRules", IF r.ok THEN "ok" ELSE "LexerError", "")
      /\ UNCHANGED <<first, stateHeap, edgeHeap, states, table, callBacks, pc, Q,
                     rowIdx, calls, lastCalc, firstTable, twin, waiting>>
      /\ UNCHANGED parseVars

ParseRules(g) ==
  /\ pc = "idle"
  /\ rules = <<>>
  /\ calls = 0
  /\ ParseRulesCall(Sources[g])

\* the current rules are the first rules of a target, the last one possibly
\* with only the first items of its right-hand side
towards(rs, target) ==
  /\ Len(rs) <= Len(target)
  /\ \A i \in 1..Len(rs) :
       /\ rs[i].lhs = target[i].lhs
       /\ rs[i].callBackId = target[i].callBackId
       /\ Len(rs[i].rhs) <= Len(target[i].rhs)
       /\ \A k \in 1..Len(rs[i].rhs) : rs[i].rhs[k] = target[i].rhs[k]
       /\ i < Len(rs) => Len(rs[i].rhs) = Len(target[i].rhs)

\* addRule(lhs)
AddRule(lhs) ==
  /\ pc = "idle"
  /\ calls = 0
  /\ \E t \in ApiTargets : towards(Append(Rules, NewRule(lhs)), t)
  /\ ruleHeap' = Append(ruleHeap, NewRule(lhs))
  /\ rules' = Append(rules, Len(ruleHeap) + 1)
  /\ result' = Result("addRule", "ok", "")
  /\ UNCHANGED <<first, stateHeap, edgeHeap, states, table, callBacks, pc, Q,
                 rowIdx, calls, lastCalc, firstTable, twin, waiting>>
  /\ UNCHANGED parseVars

\* an item method on the rule addRule returned last
AddItem(item) ==
  LET r == rules[Len(rules)]
      after == IF item.type = Terminal
                 THEN addTerminalItem(ruleHeap[r], item.value)
                 ELSE addNonTerminalItem(ruleHeap[r], item.value)
  IN  /\ pc = "idle"
      /\ calls = 0
      /\ rules # <<>>
      /\ \E t \in ApiTargets : towards([Rules EXCEPT ![Len(rules)] = after], t)
      /\ ruleHeap' = [ruleHeap EXCEPT ![r] = after]
      /\ result' = Result("addItem", "ok", "")
      /\ UNCHANGED <<rules, first, stateHeap, edgeHeap, states, table, callBacks,
                     pc, Q, rowIdx, calls, lastCalc, firstTable, twin, waiting>>
      /\ UNCHANGED parseVars

ApiLhs == UNION {{t[i].lhs : i \in 1..Len(t)} : t \in ApiTargets}
ApiItems == UNION {UNION {Range(t[i].rhs) : i \in 1..Len(t)} : t \in ApiTargets}

(***************************************************************************)
(* calcTable, one step per loop iteration.                                 *)
(***************************************************************************)
\* the rule list taken for empty up to one rule
noRules_offByOne(rs) == Len(rs) <= 1

\* the rule list is empty
noRules(rs) == Len(rs) = 0

\* the same check made on every item, terminals included
undefinedNonTerminals_anyItem(rs) ==
  LET nt == {rs[i].lhs : i \in 1..Len(rs)}
      perRule(acc, rule) == acc \o SelectSeq(rule.rhs, LAMBDA it : it.value \notin nt)
  IN  FoldSeq(perRule, <<>>, rs)

\* the same check with the left-hand side of rule 0 not counted as defined
undefinedNonTerminals_skipRoot(rs) ==
  LET nt == {rs[i].lhs : i \in 2..Len(rs)}
      perRule(acc, rule) ==
        acc \o SelectSeq(rule.rhs,
                         LAMBDA it : it.type = NonTerminal /\ it.value \notin nt)
  IN  FoldSeq(perRule, <<>>, rs)

\* the first right-hand-side non-terminal without a rule, in rule order
undefinedNonTerminals(rs) ==
  LET nt == {rs[i].lhs : i \in 1..Len(rs)}
      perRule(acc, rule) ==
        acc \o SelectSeq(rule.rhs,
                         LAMBDA it : it.type = NonTerminal /\ it.value \notin nt)
  IN  FoldSeq(perRule, <<>>, rs)

\* rule i of the list gets index i
withIndices_fromOne(rh, rs) ==
  [r \in 1..Len(rh) |->
     IF \E i \in 1..Len(rs) : rs[i] = r
       THEN [rh[r] EXCEPT !.index = CHOOSE i \in 1..Len(rs) : rs[i] = r]
       ELSE rh[r]]

\* rule i of the list gets index i - 1
withIndices(rh, rs) ==
  [r \in 1..Len(rh) |->
     IF \E i \in 1..Len(rs) : rs[i] = r
       THEN [rh[r] EXCEPT !.index = (CHOOSE i \in 1..Len(rs) : rs[i] = r) - 1]
       ELSE rh[r]]

\* calcTable up to the worklist loop
CalcTableStart ==
  LET undef == undefinedNonTerminals(Rules)
      s0 == Len(stateHeap) + 1
  IN  /\ calls' = calls + 1
      /\ IF noRules(rules)
           THEN /\ result' = Result("calcTable", "LR1Error",
                                    "cannot calculate table without any production rule")
                /\ UNCHANGED <<ruleHeap, first, stateHeap, pc, Q>>
         ELSE IF undef # <<>>
           THEN /\ result' = [Result("calcTable", "LR1Error", "uses undefined non-terminal")
                                EXCEPT !.nt = undef[1].value]
                /\ UNCHANGED <<ruleHeap, first, stateHeap, pc, Q>>
         ELSE /\ first' = calcFirst(first, Rules)
              /\ ruleHeap' = withIndices(ruleHeap, rules)
              /\ stateHeap' = Append(stateHeap,
                                     [NewState EXCEPT
                                        !.itemSet = <<StateItem(rules[1], 0, <<"END">>)>>])
              /\ Q' = <<s0>>
              /\ pc' = "worklist"
              /\ result' = Result("calcTable", "running", "")
      /\ lastCalc' = result'
      /\ UNCHANGED <<rules, edgeHeap, states, table, callBacks, rowIdx, firstTable, twin, waiting>>
      /\ UNCHANGED parseVars

CalcTableBegin ==
  /\ pc = "idle"
  /\ calls = 0
  /\ CalcTableStart

\* one iteration of the worklist loop that enqueues the successors of a
\* folded state as well
WorklistStep_enqueueFolded ==
  /\ pc = "worklist"
  /\ Q # <<>>
  /\ LET q == Q[Len(Q)]
         c == calcItemSet(stateHeap, edgeHeap, q)
         a == addState(c.states, c.edges, states, q)
     IN  IF ~c.ok
           THEN /\ stateHeap' = c.states
                /\ edgeHeap' = c.edges
                /\ pc' = "exited"
                /\ result' = Result("calcTable", "exit", "")
                /\ UNCHANGED <<states, Q>>
           ELSE /\ stateHeap' = a.states
                /\ edgeHeap' = a.edges
                /\ states' = a.admitted
                /\ Q' = SubSeq(Q, 1, Len(Q) - 1) \o c.R
                /\ UNCHANGED <<pc, result>>
  /\ lastCalc' = result'
  /\ UNCHANGED <<ruleHeap, rules, first, table, callBacks, rowIdx, calls, firstTable, twin, waiting>>
  /\ UNCHANGED parseVars

\* one iteration of the worklist loop
WorklistStep ==
  /\ pc = "worklist"
  /\ Q # <<>>
  /\ LET q == Q[Len(Q)]
         c == calcItemSet(stateHeap, edgeHeap, q)
         a == addState(c.states, c.edges, states, q)
     IN  IF ~c.ok
           THEN /\ stateHeap' = c.states
                /\ edgeHeap' = c.edges
                /\ pc' = "exited"
                /\ result' = Result("calcTable", "exit", "")
                /\ UNCHANGED <<states, Q>>
           ELSE /\ stateHeap' = a.states
                /\ edgeHeap' = a.edges
                /\ states' = a.admitted
                /\ Q' = IF a.added THEN SubSeq(Q, 1, Len(Q) - 1) \o c.R
                        ELSE SubSeq(Q, 1, Len(Q) - 1)
                /\ UNCHANGED <<pc, result>>
  /\ lastCalc' = result'
  /\ UNCHANGED <<ruleHeap, rules, first, table, callBacks, rowIdx, calls, firstTable, twin, waiting>>
  /\ UNCHANGED parseVars

\* the worklist is empty: the table object is created
BeginRows ==
  /\ pc = "worklist"
  /\ Q = <<>>
  /\ table' = NewTable
  /\ rowIdx' = 1
  /\ pc' = "rows"
  /\ UNCHANGED <<ruleHeap, rules, first, stateHeap, edgeHeap, states, callBacks, Q,
                 result, calls, lastCalc, firstTable, twin, waiting>>
  /\ UNCHANGED parseVars

\* one iteration of the row loop; after the last one calcTable returns
RowStep ==
  /\ pc = "rows"
  /\ LET b == buildRow(states[rowIdx])
     IN  /\ table' = [table EXCEPT !.rows = Append(@, b.row)]
         /\ IF b.outcome = "exit"
              THEN /\ pc' = "exited"
                   /\ result' = Result("calcTable", "exit", "")
                   /\ UNCHANGED rowIdx
            ELSE IF b.outcome = "throw"
              THEN /\ pc' = "idle"
                   /\ result' = [Result("calcTable", "LR1Error", "reduce/reduce conflict")
                                   EXCEPT !.r1 = b.r1, !.r2 = b.r2]
                   /\ UNCHANGED rowIdx
            ELSE IF rowIdx = Len(states)
              THEN /\ pc' = "idle"
                   /\ result' = Result("calcTable", "ok", "")
                   /\ UNCHANGED rowIdx
            ELSE /\ rowIdx' = rowIdx + 1
                 /\ UNCHANGED <<pc, result>>
  /\ lastCalc' = result'
  /\ firstTable' = IF result'.kind = "ok" /\ firstTable = <<>>
                     THEN <<[rules |-> Stripped(Rules), table |-> table']>>
                     ELSE firstTable
  /\ UNCHANGED <<ruleHeap, rules, first, stateHeap, edgeHeap, states, callBacks, Q, calls,
                 twin, waiting>>
  /\ UNCHANGED parseVars

(***************************************************************************)
(* Callbacks.  The handlers of test/example.js work on an auxiliary stack  *)
(* of numbers; any other handler only sees its tokens.                     *)
(***************************************************************************)
\* what a numeric operation gives for a value popped off an empty stack
NaN == -1

\* the handlers of test/example.js: the auxiliary stack afterwards; ok is
\* FALSE when the handler itself raises (no token to read)
Handler(id, terminals, st) ==
  LET n == Len(st)
      o2 == IF n >= 1 THEN st[n] ELSE NaN
      o1 == IF n >= 2 THEN st[n - 1] ELSE NaN
      popped == SubSeq(st, 1, Max(n - 2, 0))
  IN  IF id = "callbackConst"
        THEN IF terminals = <<>> THEN [aux |-> st, ok |-> FALSE]
             ELSE [aux |-> Append(st, terminals[1].tok.value), ok |-> TRUE]
      ELSE IF id = "callbackMultiply"
        THEN [aux |-> Append(popped, IF o1 = NaN \/ o2 = NaN THEN NaN ELSE o1 * o2),
              ok |-> TRUE]
      ELSE IF id = "callbackAdd"
        THEN [aux |-> Append(popped, IF o1 = NaN \/ o2 = NaN THEN NaN ELSE o1 + o2),
              ok |-> TRUE]
      ELSE [aux |-> st, ok |-> TRUE]

\* the callback identifiers of the current rules
callBackIds == {Rules[i].callBackId : i \in 1..Len(rules)} \ {""}

\* addCallback(id, f), before the parse that uses the handler
AddCallback(id) ==
  /\ pc = "idle"
  /\ result.op # "parse"
  /\ id \in callBackIds
  /\ id \notin callBacks
  /\ callBacks' = callBacks \cup {id}
  /\ result' = Result("addCallback", "ok", "")
  /\ UNCHANGED <<pc, calls, lastCalc, firstTable, twin, waiting>>
  /\ UNCHANGED genVars
  /\ UNCHANGED parseVars

(***************************************************************************)
(* The parser (LR1.parse), one step per iteration of its loop.             *)
(***************************************************************************)
\* the three kinds of elements of the parse stack
StateEl(n) == [kind |-> "state", num |-> n, tok |-> EndToken, sym |-> ""]
TokEl(tk) == [kind |-> "tok", num |-> -1, tok |-> tk, sym |-> ""]
SymEl(x) == [kind |-> "sym", num |-> -1, tok |-> EndToken, sym |-> x]

\* the subtree of a shifted token and of a reduction
Leaf(col) == [rule |-> -1, col |-> col, kids |-> <<>>]
Node(rule, kids) == [rule |-> rule, col |-> 0, kids |-> kids]

\* the element on top of a stack is the number of a row of the table
topIsRow(st) ==
  /\ st # <<>>
  /\ st[Len(st)].kind = "state"
  /\ st[Len(st)].num \in 0..(Len(table.rows) - 1)

\* the action entry looked up under the literal key only
lookup_literalOnly(row, tk) ==
  LET lit == ":" \o tk.token
  IN  IF lit \in DOMAIN row.actionEntries THEN <<row.actionEntries[lit]>> ELSE <<>>

\* the action entry looked up under the type of the token first
lookup_typeFirst(row, tk) ==
  LET lit == ":" \o tk.token
  IN  IF tk.type \in DOMAIN row.actionEntries
        THEN <<row.actionEntries[tk.type]>>
      ELSE IF tk.type \in {"TER", "DEL", "ID"} /\ lit \in DOMAIN row.actionEntries
        THEN <<row.actionEntries[lit]>>
      ELSE <<>>

\* the action entry for a token, any entry of the row standing in for a
\* missing one
lookup_recover(row, tk) ==
  LET lit == ":" \o tk.token
  IN  IF tk.type \in {"TER", "DEL", "ID"} /\ lit \in DOMAIN row.actionEntries
        THEN <<row.actionEntries[lit]>>
      ELSE IF tk.type \in DOMAIN row.actionEntries
        THEN <<row.actionEntries[tk.type]>>
      ELSE IF DOMAIN row.actionEntries # {}
        THEN <<row.actionEntries[CHOOSE k \in DOMAIN row.actionEntries : TRUE]>>
      ELSE <<>>

\* the action entry for a token: under the literal key for literal-like
\* tokens, else under the type of the token
lookup(row, tk) ==
  LET lit == ":" \o tk.token
  IN  IF tk.type \in {"TER", "DEL", "ID"} /\ lit \in DOMAIN row.actionEntries
        THEN <<row.actionEntries[lit]>>
      ELSE IF tk.type \in DOMAIN row.actionEntries
        THEN <<row.actionEntries[tk.type]>>
      ELSE <<>>

\* the elements handed to a callback, taken one slot too far
collectTerminals_stateSlots(rule, items) ==
  LET idx == SelectSeq([i \in 1..(Len(items) \div 2) |-> i],
                       LAMBDA i : rule.rhs[i].type = Terminal)
  IN  [j \in 1..Len(idx) |-> items[2 * idx[j]]]

\* the elements handed to a callback: those popped for the terminal items
collectTerminals(rule, items) ==
  LET idx == SelectSeq([i \in 1..(Len(items) \div 2) |-> i],
                       LAMBDA i : rule.rhs[i].type = Terminal)
  IN  [j \in 1..Len(idx) |-> items[2 * idx[j] - 1]]

\* the token source wrapped for a parse: each token knows its place
WithCols(w) == [i \in 1..Len(w) |-> [w[i] EXCEPT !.col = i]]

\* parse, up to its loop
ParseStart(w) ==
  IF table.isNull
    THEN /\ result' = Result("parse", "LR1Error", "table not generated")
         /\ UNCHANGED <<pc, input, pos, stack, trace, aux, forest, actions>>
  ELSE IF Len(table.rows) = 0
    THEN /\ result' = Result("parse", "LR1Error", "table has no rules")
         /\ UNCHANGED <<pc, input, pos, stack, trace, aux, forest, actions>>
  ELSE /\ result' = Result("parse", "running", "")
       /\ pc' = "parse"
       /\ input' = WithCols(w)
       /\ pos' = 1
       /\ stack' = <<StateEl(0)>>
       /\ trace' = <<>>
       /\ aux' = <<>>
       /\ forest' = <<>>
       /\ actions' = <<>>

\* parse ends: it returns or raises
ParseEnd(kind, msg) ==
  /\ pc' = "idle"
  /\ result' = Result("parse", kind, msg)

\* a shift that leaves the token in the token source
Shift_keepToken(entry, tk) ==
  /\ stack' = stack \o <<TokEl(tk), StateEl(entry.value)>>
  /\ pos' = pos
  /\ forest' = Append(forest, Leaf(tk.col))
  /\ actions' = Append(actions, [kind |-> "shift", value |-> entry.value])
  /\ UNCHANGED <<pc, result, trace, aux>>

\* the SHIFT branch
Shift(entry, tk) ==
  /\ stack' = stack \o <<TokEl(tk), StateEl(entry.value)>>
  /\ pos' = next(input, pos)
  /\ forest' = Append(forest, Leaf(tk.col))
  /\ actions' = Append(actions, [kind |-> "shift", value |-> entry.value])
  /\ UNCHANGED <<pc, result, trace, aux>>

\* the root rule reduced, success reported whatever the next token
stopAtRoot_unchecked == ParseEnd("ok", "")

\* the root rule is reduced: success if the next token is END
stopAtRoot ==
  IF isEND(input, pos)
    THEN ParseEnd("ok", "")
    ELSE ParseEnd("LexerError", "expected END")

\* a rule without a callback identifier calls no handler
hasCallBackId_notRoot(rule) == rule.callBackId # "" /\ rule.index # 0

hasCallBackId(rule) == rule.callBackId # ""

\* a missing handler goes unnoticed
handlerMissing_unnoticed(rule) == FALSE

\* the rule names a callback that has no handler
handlerMissing(rule) ==
  hasCallBackId(rule) /\ ~In(rule.callBackId, [c \in callBacks |-> TRUE])

\* the REDUCE branch
Reduce(entry) ==
  IF entry.value + 1 \notin 1..Len(rules)
    THEN /\ ParseEnd("TypeError", "")
         /\ UNCHANGED <<pos, stack, trace, aux, forest, actions>>
  ELSE
    LET rule == Rules[entry.value + 1]
        k == Len(rule.rhs)
        start == Max(Len(stack) - 2 * k, 0)
        items == SubSeq(stack, start + 1, Len(stack))
        rest == SubSeq(stack, 1, start)
        terminals == collectTerminals(rule, items)
        has == hasCallBackId(rule)
        calls1 == has /\ rule.callBackId \in callBacks
        h == Handler(rule.callBackId, terminals, aux)
        nk == IF k <= Len(forest) THEN k ELSE Len(forest)
        node == Node(entry.value, SubSeq(forest, Len(forest) - nk + 1, Len(forest)))
        grown == Append(SubSeq(forest, 1, Len(forest) - nk), node)
        done == Append(actions, [kind |-> "reduce", value |-> entry.value])
        called == IF calls1
                    THEN Append(trace, [id |-> rule.callBackId, terminals |-> terminals,
                                        rule |-> entry.value, at |-> Len(done)])
                    ELSE trace
    IN  IF handlerMissing(rule)
          THEN /\ pc' = "idle"
               /\ result' = [Result("parse", "LexerError", "UNIMPLEMENTED callback function")
                               EXCEPT !.nt = rule.callBackId]
               /\ stack' = rest
               /\ UNCHANGED <<pos, trace, aux, forest, actions>>
        ELSE IF calls1 /\ ~h.ok
          THEN /\ ParseEnd("TypeError", "")
               /\ stack' = rest
               /\ trace' = called
               /\ UNCHANGED <<pos, aux, forest, actions>>
        ELSE /\ trace' = called
             /\ aux' = IF calls1 THEN h.aux ELSE aux
             /\ forest' = grown
             /\ actions' = done
             /\ UNCHANGED pos
             /\ IF entry.value = 0
                  THEN /\ stack' = rest
                       /\ stopAtRoot
                ELSE IF ~topIsRow(rest)
                  THEN /\ stack' = rest
                       /\ ParseEnd("TypeError", "")
                ELSE LET s == rest[Len(rest)].num
                         gotos == table.rows[s + 1].gotoEntries
                     IN  IF rule.lhs \notin DOMAIN gotos
                           THEN /\ stack' = Append(rest, SymEl(rule.lhs))
                                /\ ParseEnd("TypeError", "")
                           ELSE /\ stack' = rest \o <<SymEl(rule.lhs),
                                                      StateEl(gotos[rule.lhs].value)>>
                                /\ UNCHANGED <<pc, result>>

\* one iteration of the loop of parse
ParseLoop ==
  IF ~topIsRow(stack)
    THEN /\ ParseEnd("TypeError", "")
         /\ UNCHANGED <<pos, stack, trace, aux, forest, actions>>
  ELSE LET tk == getToken(input, pos)
           found == lookup(table.rows[stack[Len(stack)].num + 1], tk)
       IN  IF found = <<>>
             THEN /\ ParseEnd("LexerError", "unexpected token")
                  /\ UNCHANGED <<pos, stack, trace, aux, forest, actions>>
           ELSE IF found[1].shift THEN Shift(found[1], tk)
           ELSE Reduce(found[1])

(***************************************************************************)
(* The token strings handed to parse.                                      *)
(***************************************************************************)
\* the lexemes of the literal terminals of the rule sources, and those the
\* lexer delivers as delimiters (all others are identifiers)
Lexemes == {"a", "b", "c", "d", "x", "+", "*", "(", ")"}
Delimiters == {"+", "*", "(", ")"}

LitToken(l) == Tok(IF l \in Delimiters THEN "DEL" ELSE "ID", l, 0)
IntToken(n, text) == Tok("INT", text, n)

\* the terminals of the current rules
terminals == UNION {{it.value : it \in {x \in Range(Rules[i].rhs) : x.type = Terminal}} :
                      i \in 1..Len(rules)}

\* tokens for the terminals of the current rules, and one token of no rule
Alphabet ==
  {LitToken(l) : l \in {m \in Lexemes : (":" \o m) \in terminals}}
  \cup (IF "INT" \in terminals THEN {IntToken(3, "3")} ELSE {})
  \cup (IF "ID" \in terminals THEN {Tok("ID", "q", 0)} ELSE {Tok("STR", "q", 0)})

RECURSIVE Strings(_, _)
Strings(A, n) ==
  IF n = 0 THEN {<<>>}
  ELSE LET shorter == Strings(A, n - 1)
       IN  shorter \cup {Append(w, t) : w \in shorter, t \in A}

\* 2 * (3+4)
ExprProduct ==
  << IntToken(2, "2"), LitToken("*"), LitToken("("), IntToken(3, "3"), LitToken("+"),
     IntToken(4, "4"), LitToken(")") >>

\* 1 + 2 * 3
ExprSum ==
  << IntToken(1, "1"), LitToken("+"), IntToken(2, "2"), LitToken("*"), IntToken(3, "3") >>

\* (1+2)*(3+4)
ExprBoth ==
  << LitToken("("), IntToken(1, "1"), LitToken("+"), IntToken(2, "2"), LitToken(")"),
     LitToken("*"), LitToken("("), IntToken(3, "3"), LitToken("+"), IntToken(4, "4"),
     LitToken(")") >>

ArithInputs == {ExprProduct, ExprSum, ExprBoth}

\* b a b a a 42 a
BlubInputs ==
  { << LitToken("b"), LitToken("a"), LitToken("b"), LitToken("a"), LitToken("a"),
       IntToken(42, "42"), LitToken("a") >> }

Inputs ==
  Strings(Alphabet, MaxInputLen)
  \cup (IF Stripped(Rules) = parseRules(SrcArith).rules THEN ArithInputs ELSE {})
  \cup (IF Stripped(Rules) = parseRules(SrcBlub).rules THEN BlubInputs ELSE {})

\* parse(lexer) is called; a parse right after a parse starts from the same
\* generator and would only repeat it
ParseBegin(w) ==
  /\ pc = "idle"
  /\ result.op # "parse"
  /\ ParseStart(w)
  /\ UNCHANGED <<callBacks, calls, lastCalc, firstTable, twin, waiting>>
  /\ UNCHANGED genVars

ParseStep ==
  /\ pc = "parse"
  /\ ParseLoop
  /\ UNCHANGED <<callBacks, calls, lastCalc, firstTable, twin, waiting, input>>
  /\ UNCHANGED genVars

Next ==
  \/ \E g \in 1..Len(Sources) : ParseRules(g)
  \/ \E lhs \in ApiLhs : AddRule(lhs)
  \/ \E item \in ApiItems : AddItem(item)
  \/ CalcTableBegin
  \/ WorklistStep
  \/ BeginRows
  \/ RowStep
  \/ \E id \in callBackIds : AddCallback(id)
  \/ \E w \in Inputs : ParseBegin(w)
  \/ ParseStep

Spec == Init /\ [][Next]_vars

(***************************************************************************)
(* The same generator used again: parseRules and calcTable called after a  *)
(* calcTable call has ended (parseRules replaces the rule list only).      *)
(***************************************************************************)
\* the rule sources given to the later parseRules calls
ReuseSources == {SrcTwoStart, SrcRootRec, SrcReduceReduce}

\* parseRules on a generator that has calculated a table before
ParseRulesAgain(src) ==
  /\ pc = "idle"
  /\ result.op = "calcTable"
  /\ calls < MaxCalc
  /\ ParseRulesCall(src)

\* calcTable on the rules of a later parseRules call
CalcTableAgain ==
  /\ pc = "idle"
  /\ result.op = "parseRules"
  /\ calls \in 1..(MaxCalc - 1)
  /\ CalcTableStart

NextReuse ==
  \/ \E g \in 1..Len(Sources) : ParseRules(g)
  \/ \E lhs \in ApiLhs : AddRule(lhs)
  \/ \E item \in ApiItems : AddItem(item)
  \/ CalcTableBegin
  \/ WorklistStep
  \/ BeginRows
  \/ RowStep
  \/ \E src \in ReuseSources : ParseRulesAgain(src)
  \/ CalcTableAgain

SpecReuse == Init /\ [][NextReuse]_vars

(***************************************************************************)
(* What the properties below speak of.                                     *)
(***************************************************************************)
\* the rule list is the one parseRules makes of a source
rulesAre(src) == Stripped(Rules) = parseRules(src).rules

\* the last calcTable call returned a table
tableReturned == pc = "idle" /\ lastCalc.kind = "ok"

\* a parse call has ended
parseEnded == pc = "idle" /\ result.op = "parse"

\* every callback identifier of the rules has a handler
allRegistered == callBackIds \subseteq callBacks

\* the tokens of the parsed input, as they were handed in
inputTokens == [i \in 1..Len(input) |-> [input[i] EXCEPT !.col = 0]]

\* a token is an occurrence of a terminal of the rule language
matches(tk, t) ==
  \/ tk.type \in {"TER", "DEL", "ID"} /\ t = ":" \o tk.token
  \/ t = tk.type

\* the symbols syms derive the token string w by the rules rs (no rule with an
\* empty right-hand side); fuel bounds a chain of unit rules
RECURSIVE derives(_, _, _, _)
derives(rs, syms, w, fuel) ==
  IF syms = <<>> THEN w = <<>>
  ELSE IF Len(w) < Len(syms) THEN FALSE
  ELSE IF Len(syms) = 1
    THEN IF syms[1].type = Terminal
           THEN Len(w) = 1 /\ matches(w[1], syms[1].value)
         ELSE \E i \in 1..Len(rs) :
                /\ rs[i].lhs = syms[1].value
                /\ IF Len(rs[i].rhs) = 1 /\ rs[i].rhs[1].type = NonTerminal
                     THEN fuel > 0 /\ derives(rs, rs[i].rhs, w, fuel - 1)
                     ELSE derives(rs, rs[i].rhs, w, Len(rs))
  ELSE \E k \in 1..(Len(w) - Len(syms) + 1) :
         /\ derives(rs, <<syms[1]>>, SubSeq(w, 1, k), Len(rs))
         /\ derives(rs, Tail(syms), SubSeq(w, k + 1, Len(w)), Len(rs))

epsilonFree(rs) == \A i \in 1..Len(rs) : rs[i].rhs # <<>>

\* w is a sentence of the start symbol, the left-hand side of rule 0
inLanguage(rs, w) ==
  /\ rs # <<>>
  /\ derives(rs, <<RuleItem(NonTerminal, rs[1].lhs)>>, w, Len(rs))

\* C1: on an epsilon-free grammar for which calcTable returned a table, a
\* parse of a token string of the grammar's language (with a handler for
\* every callback) ends successfully, its last action is the reduction of
\* rule 0, and the input is consumed up to END.
C1_RoundTrip ==
  (/\ parseEnded
   /\ lastCalc.kind = "ok"
   /\ allRegistered
   /\ epsilonFree(Rules)
   /\ Len(input) <= MaxInputLen
   /\ inLanguage(Rules, inputTokens))
  => /\ result.kind = "ok"
     /\ actions # <<>>
     /\ actions[Len(actions)] = [kind |-> "reduce", value |-> 0]
     /\ isEND(input, pos)

(***************************************************************************)
(* The value of an arithmetic expression, by recursive descent: products   *)
(* bind tighter than sums, both associate to the left.                     *)
(***************************************************************************)
NoValue == [ok |-> FALSE, val |-> 0, pos |-> 0]

isLit(w, p, l) == p <= Len(w) /\ w[p].type = "DEL" /\ w[p].token = l

RECURSIVE EvAdd(_, _), EvAddRest(_, _, _), EvMul(_, _), EvMulRest(_, _, _), EvUnary(_, _)
EvUnary(w, p) ==
  IF p <= Len(w) /\ w[p].type = "INT"
    THEN [ok |-> TRUE, val |-> w[p].value, pos |-> p + 1]
  ELSE IF isLit(w, p, "(")
    THEN LET r == EvAdd(w, p + 1)
         IN  IF r.ok /\ isLit(w, r.pos, ")")
               THEN [ok |-> TRUE, val |-> r.val, pos |-> r.pos + 1]
               ELSE NoValue
  ELSE NoValue

EvMulRest(w, acc, p) ==
  IF isLit(w, p, "*")
    THEN LET u == EvUnary(w, p + 1)
         IN  IF u.ok THEN EvMulRest(w, acc * u.val, u.pos) ELSE NoValue
    ELSE [ok |-> TRUE, val |-> acc, pos |-> p]

EvMul(w, p) ==
  LET u == EvUnary(w, p)
  IN  IF u.ok THEN EvMulRest(w, u.val, u.pos) ELSE NoValue

EvAddRest(w, acc, p) ==
  IF isLit(w, p, "+")
    THEN LET m == EvMul(w, p + 1)
         IN  IF m.ok THEN EvAddRest(w, acc + m.val, m.pos) ELSE NoValue
    ELSE [ok |-> TRUE, val |-> acc, pos |-> p]

EvAdd(w, p) ==
  LET m == EvMul(w, p)
  IN  IF m.ok THEN EvAddRest(w, m.val, m.pos) ELSE NoValue

\* the value of the whole of w, if w is an expression
Value(w) ==
  LET r == EvAdd(w, 1)
  IN  IF r.ok /\ r.pos = Len(w) + 1 THEN r ELSE NoValue

\* C2: with the arithmetic grammar and the three handlers of the example,
\* calcTable succeeds, and the parse of any expression ends with exactly one
\* value on the auxiliary stack, the value of the expression; 2 * (3+4) gives
\* 14, 1 + 2 * 3 gives 7 and (1+2)*(3+4) gives 21.
C2_Arithmetic ==
  rulesAre(SrcArith) =>
    /\ lastCalc.kind \notin {"LR1Error", "exit"}
    /\ pc # "exited"
    /\ (parseEnded /\ allRegistered /\ Value(inputTokens).ok) =>
         /\ lastCalc.kind = "ok"
         /\ result.kind = "ok"
         /\ aux = <<Value(inputTokens).val>>
         /\ inputTokens = ExprProduct => aux = <<14>>
         /\ inputTokens = ExprSum => aux = <<7>>
         /\ inputTokens = ExprBoth => aux = <<21>>

\* the parse of 2 * (3+4) has ended with 14 alone on the auxiliary stack
C2_Witness ==
  /\ rulesAre(SrcArith)
  /\ parseEnded
  /\ result.kind = "ok"
  /\ inputTokens = ExprProduct
  /\ aux = <<14>>

(***************************************************************************)
(* Parse trees: the subtrees the parser has built, read against the rules. *)
(***************************************************************************)
\* the columns of the leaves of a subtree, left to right
RECURSIVE leaves(_)
leaves(n) ==
  IF n.rule = -1 THEN <<n.col>>
  ELSE LET step(acc, k) == acc \o leaves(k)
       IN  FoldSeq(step, <<>>, n.kids)

\* the rules of the nodes of a subtree that have a callback identifier,
\* children before parents and left before right
RECURSIVE postOrder(_)
postOrder(n) ==
  IF n.rule = -1 THEN <<>>
  ELSE LET step(acc, k) == acc \o postOrder(k)
       IN  FoldSeq(step, <<>>, n.kids)
             \o (IF Rules[n.rule + 1].callBackId # "" THEN <<n.rule>> ELSE <<>>)

\* every node is an application of its rule to its children
RECURSIVE validTree(_)
validTree(n) ==
  IF n.rule = -1 THEN n.col \in 1..Len(input)
  ELSE /\ n.rule + 1 \in 1..Len(rules)
       /\ LET r == Rules[n.rule + 1]
          IN  /\ Len(n.kids) = Len(r.rhs)
              /\ \A i \in 1..Len(r.rhs) :
                   LET k == n.kids[i]
                   IN  /\ validTree(k)
                       /\ IF r.rhs[i].type = Terminal
                            THEN k.rule = -1 /\ matches(input[k.col], r.rhs[i].value)
                            ELSE k.rule # -1 /\ Rules[k.rule + 1].lhs = r.rhs[i].value

\* C3: during a successful parse the callbacks invoked so far are, in order,
\* the post-order traversal of the subtrees built so far restricted to the
\* nodes whose rule has a callback identifier; at the end these subtrees are
\* the one parse tree of the input, so every such node's callback has fired
\* exactly once, after those of its descendants and of the nodes to its left.
C3_CallbackOrder ==
  (result.op = "parse" /\ result.kind \in {"running", "ok"}) =>
    /\ [i \in 1..Len(trace) |-> trace[i].rule]
         = FoldSeq(LAMBDA acc, n : acc \o postOrder(n), <<>>, forest)
    /\ result.kind = "ok" =>
         /\ Len(forest) = 1
         /\ forest[1].rule = 0
         /\ validTree(forest[1])
         /\ leaves(forest[1]) = [i \in 1..Len(input) |-> i]

\* a successful parse has invoked callbacks of two identifiers, four or more
\* times
C3_Witness ==
  /\ parseEnded
  /\ result.kind = "ok"
  /\ Len(trace) >= 4
  /\ \E i, j \in 1..Len(trace) : i < j /\ trace[i].id # trace[j].id

\* the places of the terminal items of a right-hand side, in order
terminalPlaces(rule) ==
  SelectSeq([i \in 1..Len(rule.rhs) |-> i], LAMBDA i : rule.rhs[i].type = Terminal)

\* the last action was a reduction that invoked a callback
callbackJustInvoked ==
  /\ trace # <<>>
  /\ trace[Len(trace)].at = Len(actions)
  /\ forest # <<>>

\* C4: the handler invoked on a reduction receives exactly the tokens shifted
\* for the terminal positions of the rule's right-hand side, in right-hand-side
\* order: element i is the token matched by terminal i of the rule, and the
\* positions of non-terminals contribute no element.
C4_HandlerTokens ==
  callbackJustInvoked =>
    LET e == trace[Len(trace)]
        node == forest[Len(forest)]
        rule == Rules[e.rule + 1]
        at == terminalPlaces(rule)
    IN  /\ node.rule = e.rule
        /\ Len(node.kids) = Len(rule.rhs)
        /\ Len(e.terminals) = Len(at)
        /\ \A j \in 1..Len(at) :
             LET kid == node.kids[at[j]]
             IN  /\ kid.rule = -1
                 /\ e.terminals[j] = TokEl(input[kid.col])
                 /\ matches(input[kid.col], rule.rhs[at[j]].value)
        /\ \A j \in 1..(Len(at) - 1) :
             node.kids[at[j]].col < node.kids[at[j + 1]].col

\* a handler has received two tokens of a rule with a non-terminal between
\* its two terminals
C4_Witness ==
  /\ callbackJustInvoked
  /\ LET e == trace[Len(trace)]
         rule == Rules[e.rule + 1]
     IN  /\ Len(rule.rhs) = 3
         /\ rule.rhs[2].type = NonTerminal
         /\ Len(e.terminals) = 2
         /\ e.terminals[1].tok.type = "INT"
         /\ e.terminals[2].tok.type = "ID"

(***************************************************************************)
(* The entries a state asks for: one per out-edge and one per lookahead of *)
(* each complete item.                                                     *)
(***************************************************************************)
isComplete(item) == item.pos = Len(ruleHeap[item.rule].rhs)

candidates(s) ==
  LET byEdge(acc, e) ==
        Append(acc, [map |-> IF edgeHeap[e].label.type = Terminal THEN "action" ELSE "goto",
                     key |-> edgeHeap[e].label.value,
                     entry |-> TableEntry(TRUE, stateHeap[edgeHeap[e].dest].index)])
      byItem(acc, item) ==
        IF isComplete(item)
          THEN acc \o [i \in 1..Len(item.lookAheadSet) |->
                         [map |-> "action", key |-> item.lookAheadSet[i],
                          entry |-> TableEntry(FALSE, ruleHeap[item.rule].index)]]
          ELSE acc
  IN  FoldSeq(byItem, FoldSeq(byEdge, <<>>, stateHeap[s].outEdges), stateHeap[s].itemSet)

\* two candidates ask for the same key of the same map
clash(c) ==
  \E i, j \in 1..Len(c) : i < j /\ c[i].map = c[j].map /\ c[i].key = c[j].key

\* the entries of a row
rowEntries(row) ==
  {[map |-> "action", key |-> k, entry |-> row.actionEntries[k]] :
     k \in DOMAIN row.actionEntries}
  \cup {[map |-> "goto", key |-> k, entry |-> row.gotoEntries[k]] :
          k \in DOMAIN row.gotoEntries}

\* row r was filled to its end
rowComplete(r) == r < Len(table.rows) \/ lastCalc.kind \notin {"exit", "LR1Error"}

\* C5: a row filled to its end holds exactly the entries its state asks for
\* and no two of them ask for the same key, so nothing was assigned twice;
\* when two ask for the same key, construction ends at that row with every
\* entry made so far as it was first assigned.  No returned table resolves
\* a conflict.
C5_NoOverwrite ==
  \A r \in 1..Len(table.rows) :
    LET c == candidates(states[r])
    IN  IF rowComplete(r)
          THEN ~clash(c) /\ rowEntries(table.rows[r]) = Range(c)
          ELSE /\ clash(c)
               /\ rowEntries(table.rows[r]) \subseteq Range(c)
               /\ ~tableReturned

\* construction has ended at a row whose state asks for a shift and a
\* reduction under the same terminal
C5_Witness ==
  /\ pc = "exited"
  /\ table.rows # <<>>
  /\ LET c == candidates(states[Len(table.rows)])
     IN  \E i, j \in 1..Len(c) :
           /\ c[i].map = "action" /\ c[j].map = "action"
           /\ c[i].key = c[j].key
           /\ c[i].entry.shift /\ ~c[j].entry.shift

\* the pairs of rule indices of two complete items of a state whose
\* lookahead sets share a terminal
reduceReducePairs(s) ==
  LET its == stateHeap[s].itemSet
  IN  {{ruleHeap[its[i].rule].index, ruleHeap[its[j].rule].index} :
         <<i, j>> \in {p \in (1..Len(its)) \X (1..Len(its)) :
                         /\ p[1] < p[2]
                         /\ isComplete(its[p[1]]) /\ isComplete(its[p[2]])
                         /\ its[p[1]].rule # its[p[2]].rule
                         /\ Range(its[p[1]].lookAheadSet)
                              \cap Range(its[p[2]].lookAheadSet) # {}}}

\* a calcTable call has ended, one way or another
calcEnded == lastCalc.kind \in {"ok", "LR1Error", "exit"}

\* C6: when an admitted state contains two complete items of two rules whose
\* lookahead sets share a terminal, calcTable raises an LR1Error that names
\* the indices of both rules.
C6_ReduceReduceRaised ==
  (calcEnded /\ \E r \in 1..Len(states) : reduceReducePairs(states[r]) # {}) =>
    /\ lastCalc.kind = "LR1Error"
    /\ lastCalc.msg = "reduce/reduce conflict"
    /\ \E r \in 1..Len(states) : {lastCalc.r1, lastCalc.r2} \in reduceReducePairs(states[r])

\* C7: after calcTable has raised an error on a generator without a table,
\* the table is still unset: getTable() returns null and parse refuses with
\* 'table not generated'.
C7_ErrorLeavesTableUnset ==
  (pc = "idle" /\ lastCalc.kind = "LR1Error") =>
    /\ table.isNull
    /\ parseEnded => result.kind = "LR1Error" /\ result.msg = "table not generated"

\* C8: the table calcTable returns depends on the current rule list only: its
\* row 0 belongs to the initial state of the current rule 0, it has one row
\* per state of the current grammar, and it is the table a fresh generator
\* returned for the same rule list.
C8_PureFunction ==
  (tableReturned /\ result.op = "calcTable") =>
    /\ stateHeap[states[1]].itemSet[1].rule = rules[1]
    /\ \A r \in 1..Len(states) :
         \A i \in 1..Len(stateHeap[states[r]].itemSet) :
           \E k \in 1..Len(rules) : stateHeap[states[r]].itemSet[i].rule = rules[k]
    /\ (firstTable # <<>> /\ firstTable[1].rules = Stripped(Rules)) =>
         table = firstTable[1].table

\* C9: for s = s; s = "a"; calcTable reports a conflict and returns no table,
\* so no parse runs on a table of this grammar.
C9_SelfRuleConflict ==
  rulesAre(SrcSelf) =>
    /\ lastCalc.kind # "ok"
    /\ pc # "parse"

\* C10: for x = x "a"; calcTable succeeds and returns a table, and every
\* parse ends with an error, whatever the input.
C10_LeftRecursionRejectsAll ==
  rulesAre(SrcLeftRec) =>
    /\ lastCalc.kind \notin {"LR1Error", "exit"}
    /\ pc # "exited"
    /\ tableReturned => ~table.isNull /\ Len(table.rows) = Len(states)
    /\ parseEnded =>
         /\ result.kind \notin {"ok", "running"}
         /\ lastCalc.kind = "ok" => result.kind = "LexerError"

\* the parse of a a on the table of x = x "a"; has ended with an error
C10_Witness ==
  /\ rulesAre(SrcLeftRec)
  /\ tableReturned
  /\ parseEnded
  /\ inputTokens = <<LitToken("a"), LitToken("a")>>
  /\ result.kind = "LexerError"

\* the input b a b a a 42 a of the README test
BlubInput == CHOOSE w \in BlubInputs : TRUE

\* C11: for the blub grammar calcTable succeeds, and the parse of
\* b a b a a 42 a (with the handler registered) ends successfully having
\* invoked blub exactly once, with a token list whose second element is the
\* INT token 42.
C11_BlubOnce ==
  rulesAre(SrcBlub) =>
    /\ lastCalc.kind \notin {"LR1Error", "exit"}
    /\ pc # "exited"
    /\ (parseEnded /\ allRegistered /\ inputTokens = BlubInput) =>
         /\ lastCalc.kind = "ok"
         /\ result.kind = "ok"
         /\ Len(trace) = 1
         /\ trace[1].id = "blub"
         /\ Len(trace[1].terminals) = 2
         /\ trace[1].terminals[2].kind = "tok"
         /\ trace[1].terminals[2].tok.type = "INT"
         /\ trace[1].terminals[2].tok.value = 42

\* the parse of b a b a a 42 a has ended successfully after one blub call
C11_Witness ==
  /\ rulesAre(SrcBlub)
  /\ parseEnded
  /\ result.kind = "ok"
  /\ inputTokens = BlubInput
  /\ Len(trace) = 1
  /\ trace[1].terminals[2].tok.value = 42

\* the items of a state as a set: each core with its set of lookaheads
itemsAsSet(s) ==
  {[rule |-> it.rule, pos |-> it.pos, look |-> Range(it.lookAheadSet)] :
     it \in Range(stateHeap[s].itemSet)}

\* C12: at every point of the construction and at its end no two admitted
\* states are equal: no two have the same cores with the same lookahead set
\* for each core.
C12_UniqueStates ==
  \A i, j \in 1..Len(states) :
    i # j => /\ states[i] # states[j]
             /\ itemsAsSet(states[i]) # itemsAsSet(states[j])

\* a closed state equal to an admitted one has been refused admission
C12_Witness ==
  /\ Len(states) >= 2
  /\ \E s \in 1..Len(stateHeap) :
       /\ s \notin Range(states)
       /\ s \notin Range(Q)
       /\ \E r \in 1..Len(states) : itemsAsSet(s) = itemsAsSet(states[r])

\* calcFirst has returned for the current rules
firstComputed ==
  \/ lastCalc.kind \in {"running", "ok", "exit"}
  \/ lastCalc.kind = "LR1Error" /\ lastCalc.msg = "reduce/reduce conflict"

\* the left-hand sides of the current rules
leftHandSides == {Rules[i].lhs : i \in 1..Len(rules)}

\* C13: when calcFirst has returned, for every rule A -> X beta FIRST(A)
\* contains X if X is a terminal and all of FIRST(X) if X is a non-terminal,
\* and one further pass over the rules adds nothing to any FIRST set.
C13_FirstClosed ==
  firstComputed =>
    /\ \A i \in 1..Len(rules) :
         LET r == Rules[i]
         IN  r.rhs # <<>> =>
               /\ r.lhs \in DOMAIN first
               /\ IF r.rhs[1].type = Terminal
                    THEN r.rhs[1].value \in Range(first[r.lhs])
                    ELSE /\ r.rhs[1].value \in DOMAIN first
                         /\ Range(first[r.rhs[1].value]) \subseteq Range(first[r.lhs])
    /\ LET again == FoldSeq(firstStep, [first |-> first, changed |-> FALSE], Rules)
       IN  ~again.changed /\ again.first = first

\* FIRST sets that took more than one pass: the start symbol of the
\* arithmetic grammar has INT and ( in its set
C13_Witness ==
  /\ rulesAre(SrcArith)
  /\ firstComputed
  /\ Range(first["term"]) = {"INT", ":("}

\* some sentential form derived from A begins with the terminal t: a chain
\* of rules, each for the leftmost symbol of the one before
RECURSIVE begins(_, _, _)
begins(A, t, fuel) ==
  \E i \in 1..Len(rules) :
    LET r == Rules[i]
    IN  /\ r.lhs = A
        /\ r.rhs # <<>>
        /\ \/ r.rhs[1].type = Terminal /\ r.rhs[1].value = t
           \/ /\ r.rhs[1].type = NonTerminal
              /\ fuel > 0
              /\ begins(r.rhs[1].value, t, fuel - 1)

\* C14: on a fresh generator and a grammar without empty productions, the
\* FIRST map has one set per non-terminal, and t is in FIRST(A) exactly when
\* some sentential form derivable from A begins with the terminal t.
C14_FirstReference ==
  (firstComputed /\ epsilonFree(Rules)) =>
    /\ DOMAIN first = leftHandSides
    /\ \A A \in leftHandSides :
         /\ Len(first[A]) = Cardinality(Range(first[A]))
         /\ Range(first[A]) = {t \in terminals : begins(A, t, Len(rules))}

\* the FIRST map of the unit chain s = a; a = b; b = c; c = a "x" | "d":
\* the one terminal d has reached the set of every non-terminal
C14_Witness ==
  /\ rulesAre(SrcUnitChain)
  /\ firstComputed
  /\ \A A \in {"s", "a", "b", "c"} : Range(first[A]) = {":d"}

\* the last action of the parse was the reduction of rule 0
rootJustReduced ==
  /\ result.op = "parse"
  /\ actions # <<>>
  /\ actions[Len(actions)] = [kind |-> "reduce", value |-> 0]

\* C15: when parse has reduced the root rule it ends at once: with an error
\* raised through the token source if the next token is not END, and with
\* success if it is; parse reports success in no other way.
C15_MissingEnd ==
  /\ rootJustReduced =>
       /\ pc = "idle"
       /\ isEND(input, pos) => result.kind = "ok"
       /\ ~isEND(input, pos) =>
            result.kind = "LexerError" /\ result.msg = "expected END"
  /\ (parseEnded /\ result.kind = "ok") => rootJustReduced /\ isEND(input, pos)

\* the root rule was reduced before a further token and the parse has ended
\* with 'expected END'
C15_Witness ==
  /\ rootJustReduced
  /\ parseEnded
  /\ pos <= Len(input)
  /\ result.msg = "expected END"

(***************************************************************************)
(* The step parse is about to take, read off the table.                    *)
(***************************************************************************)
\* the token parse looks at and the row of the state on top of the stack
currentToken == getToken(input, pos)
currentRow == table.rows[stack[Len(stack)].num + 1]

\* parse is about to look up an action
atLookup == pc = "parse" /\ topIsRow(stack)

\* the token is of a type looked up under its literal key first
literalLike(tk) == tk.type \in {"TER", "DEL", "ID"}

\* the row has an entry under the literal key, under the type key
hasLiteralKey(row, tk) == (":" \o tk.token) \in DOMAIN row.actionEntries
hasTypeKey(row, tk) == tk.type \in DOMAIN row.actionEntries

\* the key whose entry decides the step, if any
decidingKey(row, tk) ==
  IF literalLike(tk) /\ hasLiteralKey(row, tk) THEN <<":" \o tk.token>>
  ELSE IF hasTypeKey(row, tk) THEN <<tk.type>>
  ELSE <<>>

\* parse is about to reduce the rule of index r
aboutToReduce(r) ==
  /\ atLookup
  /\ decidingKey(currentRow, currentToken) # <<>>
  /\ LET e == currentRow.actionEntries[decidingKey(currentRow, currentToken)[1]]
     IN  ~e.shift /\ e.value = r
  /\ r + 1 \in 1..Len(rules)

\* parse is about to reduce a rule whose callback has no handler
aboutToMissHandler ==
  \E r \in 0..(Len(rules) - 1) :
    /\ aboutToReduce(r)
    /\ Rules[r + 1].callBackId # ""
    /\ Rules[r + 1].callBackId \notin callBacks

unimplemented == "UNIMPLEMENTED callback function"

\* what holds of a state as to missing handlers
unimplementedState ==
  /\ lastCalc.kind = "LR1Error" =>
       lastCalc.msg \in {"cannot calculate table without any production rule",
                         "uses undefined non-terminal", "reduce/reduce conflict"}
  /\ (rulesAre(SrcArith) \/ rulesAre(SrcBlub) \/ rulesAre(SrcCallbacks)) =>
       lastCalc.kind \notin {"LR1Error", "exit"}
  /\ result.msg = unimplemented =>
       /\ parseEnded
       /\ result.kind = "LexerError"
       /\ result.nt \in callBackIds \ callBacks
  /\ \A i \in 1..Len(trace) : trace[i].id \in callBacks
  /\ \A i \in 1..Len(actions) :
       actions[i].kind = "reduce" =>
         \/ Rules[actions[i].value + 1].callBackId = ""
         \/ Rules[actions[i].value + 1].callBackId \in callBacks

unexpected == "unexpected token"

\* C17: in every parse step where the row of the top state has no action
\* entry for the current token, neither under its literal key nor under its
\* type key, parse raises the unexpected-token error through the token source
\* and halts: nothing is shifted, reduced or invoked in that step or after it.
C17_UnexpectedToken ==
  [][/\ (/\ atLookup
         /\ ~hasLiteralKey(currentRow, currentToken)
         /\ ~hasTypeKey(currentRow, currentToken)) =>
          /\ pc' = "idle"
          /\ result'.kind = "LexerError"
          /\ result'.msg = unexpected
          /\ UNCHANGED <<pos, stack, trace, aux, actions>>
     /\ (result'.msg = unexpected /\ result.msg # unexpected) =>
          atLookup /\ decidingKey(currentRow, currentToken) = <<>>
     /\ parseEnded => UNCHANGED <<pos, stack, trace, aux, actions>>]_vars

\* a parse that had shifted and reduced has halted on a token without an
\* entry, with input left
C17_Witness ==
  /\ parseEnded
  /\ result.msg = unexpected
  /\ \E i, j \in 1..Len(actions) : actions[i].kind = "shift" /\ actions[j].kind = "reduce"
  /\ pos < Len(input)

\* C18: parse takes the step of the entry under the literal key ':' + lexeme
\* when the token is of type terminal, delimiter or identifier and the row
\* has that key, of the entry under the type key when the literal key is
\* absent, and for tokens of every other type of the entry under the type
\* key only.
C18_LookupOrder ==
  [][atLookup =>
       LET tk == currentToken
           key == decidingKey(currentRow, tk)
       IN  IF key = <<>>
             THEN pc' = "idle" /\ result'.msg = unexpected
             ELSE LET e == currentRow.actionEntries[key[1]]
                  IN  IF e.shift
                        THEN /\ stack' = stack \o <<TokEl(tk), StateEl(e.value)>>
                             /\ pos' = pos + 1
                             /\ pc' = "parse"
                        ELSE /\ pos' = pos
                             /\ result'.msg # unexpected
                             /\ actions' # actions =>
                                  actions' = Append(actions, [kind |-> "reduce",
                                                              value |-> e.value])]_vars

\* the identifier token a was shifted in a row that has an entry for :a and
\* another one for ID, and went where the entry for :a leads
C18_Witness ==
  /\ rulesAre(SrcKeyOrder)
  /\ pc = "parse"
  /\ Len(stack) = 3
  /\ stack[2].kind = "tok" /\ stack[2].tok.type = "ID" /\ stack[2].tok.token = "a"
  /\ LET row == table.rows[1]
     IN  /\ {":a", "ID", ":3"} \subseteq DOMAIN row.actionEntries
         /\ row.actionEntries[":a"].value # row.actionEntries["ID"].value
         /\ stack[3] = StateEl(row.actionEntries[":a"].value)

\* a calcTable call has been made
calcCalled == lastCalc.kind # "none"

\* nothing of the construction has been done
nothingConstructed ==
  /\ first = <<>>
  /\ stateHeap = <<>>
  /\ states = <<>>
  /\ table.isNull

noRulesMsg == "cannot calculate table without any production rule"

\* C19: calcTable called on a generator without rules raises an LR1Error
\* before computing FIRST sets or admitting any state (and raises this error
\* for no other rule list).
C19_EmptyGrammar ==
  /\ (calcCalled /\ rules = <<>>) =>
       /\ pc = "idle"
       /\ lastCalc.kind = "LR1Error"
       /\ lastCalc.msg = noRulesMsg
       /\ nothingConstructed
  /\ lastCalc.msg = noRulesMsg => rules = <<>>

\* calcTable was called without rules and has raised
C19_Witness ==
  /\ rules = <<>>
  /\ lastCalc.kind = "LR1Error"
  /\ lastCalc.msg = noRulesMsg
  /\ result = lastCalc

\* the right-hand-side non-terminals that are the left-hand side of no rule
undefinedSet ==
  UNION {{it.value : it \in {x \in Range(Rules[i].rhs) : x.type = NonTerminal}} :
           i \in 1..Len(rules)} \ leftHandSides

undefinedMsg == "uses undefined non-terminal"

\* C20: if some right-hand side contains a non-terminal without a rule,
\* calcTable raises an LR1Error naming such a non-terminal before computing
\* FIRST sets or admitting any state; if every right-hand-side non-terminal
\* has a rule, this error is never raised.
C20_UndefinedNonTerminal ==
  (calcCalled /\ rules # <<>>) =>
    IF undefinedSet # {}
      THEN /\ pc = "idle"
           /\ lastCalc.kind = "LR1Error"
           /\ lastCalc.msg = undefinedMsg
           /\ lastCalc.nt \in undefinedSet
           /\ nothingConstructed
      ELSE lastCalc.msg # undefinedMsg

\* calcTable has raised on z = s "a"; naming s
C20_Witness ==
  /\ rulesAre(SrcUndefined)
  /\ lastCalc.kind = "LR1Error"
  /\ lastCalc.msg = undefinedMsg
  /\ lastCalc.nt = "s"
  /\ nothingConstructed

(***************************************************************************)
(* Two generators, one after the other: the first one's table and parse    *)
(* are kept, then a second generator is constructed and given the same     *)
(* rules, handlers and input.  The objects of the first stay on the heap,   *)
(* so those of the second have other identities.                           *)
(***************************************************************************)
\* the automaton without identities: per admitted state its index, its items
\* by rule index, and its out-edges by label and destination index
automaton ==
  [i \in 1..Len(states) |->
     LET st == stateHeap[states[i]]
     IN  [index |-> st.index,
          items |-> [k \in 1..Len(st.itemSet) |->
                       [rule |-> ruleHeap[st.itemSet[k].rule].index,
                        pos |-> st.itemSet[k].pos,
                        look |-> st.itemSet[k].lookAheadSet]],
          out |-> [k \in 1..Len(st.outEdges) |->
                     [label |-> edgeHeap[st.outEdges[k]].label,
                      dest |-> stateHeap[edgeHeap[st.outEdges[k]].dest].index]]]]

\* what a generator and its parse gave
Outcome ==
  [rules |-> Stripped(Rules), first |-> first, lastCalc |-> lastCalc, table |-> table,
   automaton |-> automaton, callBacks |-> callBacks, parsed |-> result.op = "parse",
   input |-> inputTokens, pos |-> pos, result |-> result, actions |-> actions,
   trace |-> trace, aux |-> aux]

\* new LR1(): the fields of a generator as its constructor leaves them
NewGenerator ==
  /\ pc = "idle"
  /\ twin = <<>>
  /\ lastCalc.kind \in {"ok", "LR1Error"}
  /\ \/ result.op = "parse"
     \/ result.op = "calcTable" /\ lastCalc.kind = "LR1Error"
  /\ twin' = <<Outcome>>
  /\ rules' = <<>>
  /\ first' = <<>>
  /\ states' = <<>>
  /\ table' = NullTable
  /\ callBacks' = {}
  /\ Q' = <<>>
  /\ rowIdx' = 0
  /\ result' = Result("new", "ok", "")
  /\ calls' = 0
  /\ lastCalc' = Result("calcTable", "none", "")
  /\ firstTable' = <<>>
  /\ input' = <<>>
  /\ pos' = 1
  /\ stack' = <<>>
  /\ trace' = <<>>
  /\ aux' = <<>>
  /\ forest' = <<>>
  /\ actions' = <<>>
  /\ UNCHANGED <<ruleHeap, stateHeap, edgeHeap, pc, waiting>>

\* parseRules; the second generator is given the rules of the first
TwinParseRules(g) ==
  /\ twin # <<>> => parseRules(Sources[g]).rules = twin[1].rules
  /\ ParseRules(g)

\* addCallback; the second generator is given the handlers of the first
TwinAddCallback(id) ==
  /\ twin # <<>> => id \in twin[1].callBacks
  /\ AddCallback(id)

\* 1 +  (an expression cut short)
ExprCut == << IntToken(1, "1"), LitToken("+") >>

\* b c  (a sentence of the grammar of SrcCallbacks)
InputQC == << LitToken("b"), LitToken("c") >>

\* the token strings parsed by both generators
TwinInputs ==
  {<<>>} \cup {<<t>> : t \in Alphabet}
  \cup (IF Stripped(Rules) = parseRules(SrcArith).rules THEN {ExprSum, ExprCut} ELSE {})
  \cup (IF Stripped(Rules) = parseRules(SrcBlub).rules THEN BlubInputs ELSE {})
  \cup (IF Stripped(Rules) = parseRules(SrcCallbacks).rules THEN {InputQC} ELSE {})

\* parse; the second generator parses the input of the first
TwinParseBegin(w) ==
  /\ twin # <<>> => /\ twin[1].parsed
                    /\ w = twin[1].input
                    /\ callBacks = twin[1].callBacks
  /\ ParseBegin(w)

NextTwin ==
  \/ \E g \in 1..Len(Sources) : TwinParseRules(g)
  \/ CalcTableBegin
  \/ WorklistStep
  \/ BeginRows
  \/ RowStep
  \/ \E id \in callBackIds : TwinAddCallback(id)
  \/ \E w \in TwinInputs : TwinParseBegin(w)
  \/ ParseStep
  \/ NewGenerator

SpecTwin == Init /\ [][NextTwin]_vars

\* a is the beginning of b
isPrefix(a, b) == Len(a) <= Len(b) /\ a = SubSeq(b, 1, Len(a))

\* C21: a second fresh generator given the rule list of a first one ends
\* calcTable the same way, with the same FIRST map, the same table and the
\* same states under the same numbers; its parse of the same tokens with the
\* same handlers makes the same shifts, reductions and callback invocations
\* and ends the same way.
C21_Determinism ==
  twin # <<>> =>
    LET t == twin[1]
        same == Stripped(Rules) = t.rules
    IN  /\ (same /\ calcCalled) => pc # "exited"
        /\ (same /\ pc = "idle" /\ calcEnded) =>
             /\ lastCalc = t.lastCalc
             /\ first = t.first
             /\ table = t.table
             /\ automaton = t.automaton
        /\ (same /\ result.op = "parse" /\ lastCalc.kind = "ok") =>
             /\ isPrefix(actions, t.actions)
             /\ isPrefix(trace, t.trace)
        /\ (same /\ parseEnded /\ lastCalc.kind = "ok") =>
             /\ inputTokens = t.input
             /\ result = t.result
             /\ actions = t.actions
             /\ trace = t.trace
             /\ aux = t.aux
             /\ pos = t.pos

\* the second generator has built the arithmetic table and parsed 1 + 2 * 3
\* as the first did, on states of other identities
C21_Witness ==
  /\ twin # <<>>
  /\ rulesAre(SrcArith)
  /\ parseEnded
  /\ result.kind = "ok"
  /\ inputTokens = ExprSum
  /\ Len(trace) = 5
  /\ table = twin[1].table
  /\ states[1] > Len(twin[1].automaton)

(***************************************************************************)
(* Two parse calls on one generator, their loop iterations interleaved.    *)
(* The stack is a local of the call and the token source its argument, so  *)
(* each call has its own; the handlers' auxiliary stack is per call too.   *)
(* A parse that ran alone is kept; the same input is then parsed again      *)
(* with a second call beside it.                                           *)
(***************************************************************************)
\* the locals of the parse call at its turn, under the name of the call
Context(who) ==
  [who |-> who, pc |-> pc, result |-> result, input |-> input, pos |-> pos,
   stack |-> stack, trace |-> trace, aux |-> aux, forest |-> forest,
   actions |-> actions]

\* the locals of a call that takes its turn, the stack being one for all calls
resumed_sharedStack(c) == [c EXCEPT !.stack = stack]

\* the locals of a call that takes its turn
resumed(c) == c

\* the token strings parsed on the shared table
SharedInputs == TwinInputs

\* parse, alone
SharedParseBegin(w) ==
  /\ twin = <<>>
  /\ ParseBegin(w)

\* the parse that ran alone is kept and its input parsed again
ParseAgain ==
  /\ pc = "idle"
  /\ twin = <<>>
  /\ result.op = "parse"
  /\ lastCalc.kind = "ok"
  /\ twin' = <<Outcome>>
  /\ ParseStart(inputTokens)
  /\ UNCHANGED <<callBacks, calls, lastCalc, firstTable, waiting>>
  /\ UNCHANGED genVars

\* a second parse call begins while the first is in its loop
ParseBeside(w) ==
  /\ pc = "parse"
  /\ twin # <<>>
  /\ waiting = <<>>
  /\ waiting' = <<Context("again")>>
  /\ ParseStart(w)
  /\ UNCHANGED <<callBacks, calls, lastCalc, firstTable, twin>>
  /\ UNCHANGED genVars

\* the other call takes its turn
Switch ==
  /\ waiting # <<>>
  /\ pc = "parse" \/ waiting[1].pc = "parse"
  /\ LET c == resumed(waiting[1])
     IN  /\ waiting' = <<Context(IF c.who = "again" THEN "beside" ELSE "again")>>
         /\ pc' = c.pc
         /\ result' = c.result
         /\ input' = c.input
         /\ pos' = c.pos
         /\ stack' = c.stack
         /\ trace' = c.trace
         /\ aux' = c.aux
         /\ forest' = c.forest
         /\ actions' = c.actions
  /\ UNCHANGED <<callBacks, calls, lastCalc, firstTable, twin>>
  /\ UNCHANGED genVars

NextShared ==
  \/ \E g \in 1..Len(Sources) : ParseRules(g)
  \/ CalcTableBegin
  \/ WorklistStep
  \/ BeginRows
  \/ RowStep
  \/ \E id \in callBackIds : AddCallback(id)
  \/ \E w \in SharedInputs : SharedParseBegin(w)
  \/ ParseStep
  \/ ParseAgain
  \/ \E w \in SharedInputs : ParseBeside(w)
  \/ Switch

SpecShared == Init /\ [][NextShared]_vars

\* the two calls, the one at its turn first
bothCalls ==
  IF waiting = <<>> THEN <<Context("again")>>
  ELSE <<Context(IF waiting[1].who = "again" THEN "beside" ELSE "again"), waiting[1]>>

\* a call runs or has ended as the parse of its input that ran alone
asAlone(c) ==
  LET t == twin[1]
  IN  /\ [i \in 1..Len(c.input) |-> [c.input[i] EXCEPT !.col = 0]] = t.input
      /\ isPrefix(c.actions, t.actions)
      /\ isPrefix(c.trace, t.trace)
      /\ c.pc = "idle" =>
           /\ c.result = t.result
           /\ c.actions = t.actions
           /\ c.trace = t.trace
           /\ c.aux = t.aux
           /\ c.pos = t.pos

\* what parse leaves alone
generatorFields == <<ruleHeap, rules, first, stateHeap, edgeHeap, states, table, callBacks>>

\* C22: no step of parse (its begin, a shift, a reduction, an error) changes
\* the table, the rules, the FIRST map, the states or the handlers; and a
\* parse whose loop iterations are interleaved in any way with those of a
\* second parse on the same table makes the actions and callback invocations
\* and has the result it has when it runs alone.
C22_ParseReadOnly ==
  /\ [](twin # <<>> =>
          \A i \in 1..Len(bothCalls) :
            bothCalls[i].who = "again" => asAlone(bothCalls[i]))
  /\ [][(pc = "parse" \/ pc' = "parse") => UNCHANGED generatorFields]_vars

\* both calls, of different inputs, have ended successfully after invoking
\* handlers
C22_Witness ==
  /\ twin # <<>>
  /\ waiting # <<>>
  /\ pc = "idle"
  /\ waiting[1].pc = "idle"
  /\ \A i \in 1..2 :
       /\ bothCalls[i].result.kind = "ok"
       /\ bothCalls[i].trace # <<>>
  /\ bothCalls[1].who = "again"
  /\ Len(bothCalls[1].trace) >= 2
  /\ bothCalls[1].input # bothCalls[2].input

(***************************************************************************)
(* Rule sources with alternatives, and the same rules written one by one.  *)
(***************************************************************************)
isBar(tk) == tk.type = "DEL" /\ tk.token = "|"
isSemicolon(tk) == tk.type = "DEL" /\ tk.token = ";"

\* a source with every A = r1 | r2 ; written as A = r1 ; A = r2 ;
individually(src) ==
  LET step(acc, tk) ==
        IF isBar(tk)
          THEN [acc EXCEPT !.out = @ \o <<D(";"), I(acc.lhs), D("=")>>, !.prev = tk]
        ELSE IF tk.type = "DEL" /\ tk.token = "="
          THEN [out |-> Append(acc.out, tk), lhs |-> acc.prev.token, prev |-> tk]
        ELSE [acc EXCEPT !.out = Append(@, tk), !.prev = tk]
  IN  FoldSeq(step, [out |-> <<>>, lhs |-> "", prev |-> EndToken], src).out

\* the texts of the alternatives of a source, in order: what stands between
\* "=", "|" and ";"
alternativeTexts(src) ==
  LET step(acc, tk) ==
        IF isBar(tk) \/ isSemicolon(tk)
          THEN [done |-> Append(acc.done, acc.cur), cur |-> <<>>]
        ELSE IF tk.type = "DEL" /\ tk.token = "="
          THEN [acc EXCEPT !.cur = <<>>]
        ELSE [acc EXCEPT !.cur = Append(@, tk)]
  IN  FoldSeq(step, [done |-> <<>>, cur |-> <<>>], src).done

\* the identifier after "->" in the text of an alternative, if any
callbackIn(text) ==
  IF \E k \in 1..(Len(text) - 1) : text[k] = Arrow
    THEN text[(CHOOSE k \in 1..(Len(text) - 1) : text[k] = Arrow) + 1].token
    ELSE ""

\* C23: when parseRules has returned, it has made of a source with
\* alternatives the rule list it makes of the same alternatives written as
\* individual rules (same order,
\* left-hand sides, items and callback identifiers), one rule per
\* alternative, and a rule has the callback identifier that follows '->' in
\* its own alternative and none if its alternative has none.
C23_Alternation ==
  \A g \in 1..Len(Sources) :
    (result.op = "parseRules" /\ rulesAre(Sources[g])) =>
      LET texts == alternativeTexts(Sources[g])
      IN  /\ parseRules(individually(Sources[g])).ok
          /\ rulesAre(individually(Sources[g]))
          /\ Len(rules) = Len(texts)
          /\ \A i \in 1..Len(rules) : Rules[i].callBackId = callbackIn(texts[i])

\* the seven rules of the arithmetic grammar, made of four definitions: the
\* second has the callback of its alternative, the third has none
C23_Witness ==
  /\ result.op = "parseRules"
  /\ rulesAre(SrcArith)
  /\ Len(SrcArith) < Len(individually(SrcArith))
  /\ \A i \in 1..Len(individually(SrcArith)) : ~isBar(individually(SrcArith)[i])
  /\ Len(rules) = 7
  /\ Rules[2].lhs = "add" /\ Rules[2].callBackId = "callbackAdd"
  /\ Rules[3].lhs = "add" /\ Rules[3].callBackId = ""

\* the table printed in the README for the arithmetic grammar, row by row
ReadmeTable ==
  << [actionEntries |-> "INT" :> TableEntry(TRUE, 18) @@ ":(" :> TableEntry(TRUE, 5),
      gotoEntries |-> "add" :> TableEntry(TRUE, 19) @@ "mul" :> TableEntry(TRUE, 2) @@ "unary" :> TableEntry(TRUE, 1)],
     [actionEntries |-> "END" :> TableEntry(FALSE, 4) @@ ":+" :> TableEntry(FALSE, 4) @@ ":*" :> TableEntry(FALSE, 4),
      gotoEntries |-> <<>>],
     [actionEntries |-> ":*" :> TableEntry(TRUE, 3) @@ "END" :> TableEntry(FALSE, 2) @@ ":+" :> TableEntry(FALSE, 2),
      gotoEntries |-> <<>>],
     [actionEntries |-> "INT" :> TableEntry(TRUE, 18) @@ ":(" :> TableEntry(TRUE, 5),
      gotoEntries |-> "unary" :> TableEntry(TRUE, 4)],
     [actionEntries |-> "END" :> TableEntry(FALSE, 3) @@ ":+" :> TableEntry(FALSE, 3) @@ ":*" :> TableEntry(FALSE, 3),
      gotoEntries |-> <<>>],
     [actionEntries |-> "INT" :> TableEntry(TRUE, 14) @@ ":(" :> TableEntry(TRUE, 10),
      gotoEntries |-> "add" :> TableEntry(TRUE, 16) @@ "mul" :> TableEntry(TRUE, 7) @@ "unary" :> TableEntry(TRUE, 6)],
     [actionEntries |-> ":)" :> TableEntry(FALSE, 4) @@ ":+" :> TableEntry(FALSE, 4) @@ ":*" :> TableEntry(FALSE, 4),
      gotoEntries |-> <<>>],
     [actionEntries |-> ":*" :> TableEntry(TRUE, 8) @@ ":)" :> TableEntry(FALSE, 2) @@ ":+" :> TableEntry(FALSE, 2),
      gotoEntries |-> <<>>],
     [actionEntries |-> "INT" :> TableEntry(TRUE, 14) @@ ":(" :> TableEntry(TRUE, 10),
      gotoEntries |-> "unary" :> TableEntry(TRUE, 9)],
     [actionEntries |-> ":)" :> TableEntry(FALSE, 3) @@ ":+" :> TableEntry(FALSE, 3) @@ ":*" :> TableEntry(FALSE, 3),
      gotoEntries |-> <<>>],
     [actionEntries |-> "INT" :> TableEntry(TRUE, 14) @@ ":(" :> TableEntry(TRUE, 10),
      gotoEntries |-> "add" :> TableEntry(TRUE, 11) @@ "mul" :> TableEntry(TRUE, 7) @@ "unary" :> TableEntry(TRUE, 6)],
     [actionEntries |-> ":)" :> TableEntry(TRUE, 15) @@ ":+" :> TableEntry(TRUE, 12),
      gotoEntries |-> <<>>],
     [actionEntries |-> "INT" :> TableEntry(TRUE, 14) @@ ":(" :> TableEntry(TRUE, 10),
      gotoEntries |-> "mul" :> TableEntry(TRUE, 13) @@ "unary" :> TableEntry(TRUE, 6)],
     [actionEntries |-> ":*" :> TableEntry(TRUE, 8) @@ ":)" :> TableEntry(FALSE, 1) @@ ":+" :> TableEntry(FALSE, 1),
      gotoEntries |-> <<>>],
     [actionEntries |-> ":)" :> TableEntry(FALSE, 5) @@ ":+" :> TableEntry(FALSE, 5) @@ ":*" :> TableEntry(FALSE, 5),
      gotoEntries |-> <<>>],
     [actionEntries |-> ":)" :> TableEntry(FALSE, 6) @@ ":+" :> TableEntry(FALSE, 6) @@ ":*" :> TableEntry(FALSE, 6),
      gotoEntries |-> <<>>],
     [actionEntries |-> ":)" :> TableEntry(TRUE, 17) @@ ":+" :> TableEntry(TRUE, 12),
      gotoEntries |-> <<>>],
     [actionEntries |-> "END" :> TableEntry(FALSE, 6) @@ ":+" :> TableEntry(FALSE, 6) @@ ":*" :> TableEntry(FALSE, 6),
      gotoEntries |-> <<>>],
     [actionEntries |-> "END" :> TableEntry(FALSE, 5) @@ ":+" :> TableEntry(FALSE, 5) @@ ":*" :> TableEntry(FALSE, 5),
      gotoEntries |-> <<>>],
     [actionEntries |-> ":+" :> TableEntry(TRUE, 20) @@ "END" :> TableEntry(FALSE, 0),
      gotoEntries |-> <<>>],
     [actionEntries |-> "INT" :> TableEntry(TRUE, 18) @@ ":(" :> TableEntry(TRUE, 5),
      gotoEntries |-> "mul" :> TableEntry(TRUE, 21) @@ "unary" :> TableEntry(TRUE, 1)],
     [actionEntries |-> ":*" :> TableEntry(TRUE, 3) @@ "END" :> TableEntry(FALSE, 1) @@ ":+" :> TableEntry(FALSE, 1),
      gotoEntries |-> <<>>] >>

\* the rows of a table that accept: Reduce(0) on END
acceptingRows(t) ==
  {r \in 1..Len(t.rows) :
     /\ "END" \in DOMAIN t.rows[r].actionEntries
     /\ t.rows[r].actionEntries["END"] = TableEntry(FALSE, 0)}

\* C24: for the arithmetic grammar calcTable returns a table of exactly 22
\* rows, row for row the table printed in the README: row 0 shifts on INT and
\* on ":(" and has gotos for add, mul and unary, and exactly one row has the
\* accepting entry Reduce(0) on END.
C24_ReadmeTable ==
  rulesAre(SrcArith) =>
    /\ lastCalc.kind \notin {"LR1Error", "exit"}
    /\ pc # "exited"
    /\ tableReturned =>
         /\ Len(table.rows) = 22
         /\ table.rows = ReadmeTable
         /\ DOMAIN table.rows[1].actionEntries = {"INT", ":("}
         /\ \A k \in {"INT", ":("} : table.rows[1].actionEntries[k].shift
         /\ DOMAIN table.rows[1].gotoEntries = {"add", "mul", "unary"}
         /\ Cardinality(acceptingRows(table)) = 1

\* calcTable has just returned the 22 rows for the arithmetic grammar
C24_Witness ==
  /\ rulesAre(SrcArith)
  /\ tableReturned
  /\ result.op = "calcTable"
  /\ Len(table.rows) = 22
  /\ acceptingRows(table) = {20}

(***************************************************************************)
(* The closure of a state as the textbook defines it.                      *)
(***************************************************************************)
\* the lookaheads an item [A -> alpha . B beta, L] passes to the items of B
lookOf(item) ==
  LET rhs == ruleHeap[item.rule].rhs
      beta == SubSeq(rhs, item.pos + 2, Len(rhs))
  IN  IF beta = <<>> THEN Range(item.lookAheadSet)
      ELSE IF beta[1].type = Terminal THEN {beta[1].value}
      ELSE IF beta[1].value \in DOMAIN first THEN Range(first[beta[1].value])
      ELSE {}

\* the item set is closed: every item with the dot before a non-terminal B
\* has, for every rule of B, an item of that rule with the dot at 0 and at
\* least the lookaheads it passes on
closed(itemSet) ==
  \A i \in 1..Len(itemSet) :
    LET item == itemSet[i]
    IN  (dotNotAtEnd(item) /\ atDot(item).type = NonTerminal) =>
          \A r \in 1..Len(rules) :
            Rules[r].lhs = atDot(item).value =>
              \E j \in 1..Len(itemSet) :
                /\ itemSet[j].rule = rules[r]
                /\ itemSet[j].pos = 0
                /\ lookOf(item) \subseteq Range(itemSet[j].lookAheadSet)

\* C25: the item set of every state that calcItemSet has closed and that was
\* admitted is closed, lookaheads included.
C25_ClosureComplete ==
  \A k \in 1..Len(states) : closed(stateHeap[states[k]].itemSet)

\* an item set as LR(1) items with one lookahead each: <<rule, dot, terminal>>
singles(itemSet) ==
  UNION {{<<it.rule, it.pos, t>> : t \in Range(it.lookAheadSet)} : it \in Range(itemSet)}

\* the items one closure step adds to a set of such items
closureStep(its) ==
  UNION {LET item == StateItem(x[1], x[2], <<x[3]>>)
         IN  IF dotNotAtEnd(item) /\ atDot(item).type = NonTerminal
               THEN {<<rules[r], 0, t>> :
                       r \in {k \in 1..Len(rules) : Rules[k].lhs = atDot(item).value},
                       t \in lookOf(item)}
               ELSE {} : x \in its}

\* the least set that holds the items and is closed
RECURSIVE closure(_)
closure(its) ==
  LET more == its \cup closureStep(its)
  IN  IF more = its THEN its ELSE closure(more)

\* the symbols right of the dots of an item set
afterDots(itemSet) ==
  {atDot(itemSet[i]) : i \in {k \in 1..Len(itemSet) : dotNotAtEnd(itemSet[k])}}

\* the items of an item set with the dot moved over X
moved(itemSet, X) ==
  {<<x[1], x[2] + 1, x[3]>> :
     x \in {y \in singles(itemSet) :
              LET item == StateItem(y[1], y[2], <<y[3]>>)
              IN  dotNotAtEnd(item) /\ atDot(item) = X}}

\* the out-edges of the state of identity s that are labelled X
outEdgesFor(s, X) ==
  {k \in 1..Len(stateHeap[s].outEdges) : edgeHeap[stateHeap[s].outEdges[k]].label = X}

\* the worklist has just run empty
constructionEnds == pc = "worklist" /\ Q = <<>>

\* C26: when the construction of the states ends, every admitted state has
\* for every symbol X right of a dot exactly one out-edge labelled X, the
\* edge leads to an admitted state, and the items of that state are the
\* closure of the state's items with the dot moved over X.
C26_GotoPreserved ==
  constructionEnds =>
    \A k \in 1..Len(states) :
      \A X \in afterDots(stateHeap[states[k]].itemSet) :
        LET es == outEdgesFor(states[k], X)
        IN  /\ Cardinality(es) = 1
            /\ \A e \in es :
                 LET dest == edgeHeap[stateHeap[states[k]].outEdges[e]].dest
                 IN  /\ dest \in Range(states)
                     /\ singles(stateHeap[dest].itemSet)
                          = closure(moved(stateHeap[states[k]].itemSet, X))

(***************************************************************************)
(* A row of the table read against its state.                              *)
(***************************************************************************)
\* the out-edges of a state with a label of a type: <<label, index of the
\* destination>>
edgesOf(s, type) ==
  {<<edgeHeap[e].label.value, stateHeap[edgeHeap[e].dest].index>> :
     e \in {x \in Range(stateHeap[s].outEdges) : edgeHeap[x].label.type = type}}

\* the reductions a state asks for: <<terminal, position of the rule in the
\* rule list, counted from 0>>
reductionsOf(s) ==
  UNION {{<<t, r - 1>> :
            t \in UNION {Range(it.lookAheadSet) :
                           it \in {x \in Range(stateHeap[s].itemSet) :
                                     isComplete(x) /\ x.rule = rules[r]}}} :
           r \in 1..Len(rules)}

\* the entries of a dictionary of a row that shift, that reduce
entriesOf(dict, shift) ==
  {<<k, dict[k].value>> : k \in {x \in DOMAIN dict : dict[x].shift = shift}}

\* calcTable has just returned a table
tableJustReturned == tableReturned /\ result.op = "calcTable"

\* C27: in a table calcTable returns, row i has Shift(j) under t exactly for
\* the out-edges of state i labelled with the terminal t to the state of
\* index j, goto j under N exactly for its out-edges labelled with the
\* non-terminal N, and Reduce(r) under t exactly for its complete items of
\* the rule at position r with t in the lookahead set; shift and goto values
\* are row indices and reduce values are rule positions.
C27_TableMirrorsAutomaton ==
  tableJustReturned =>
    /\ Len(table.rows) = Len(states)
    /\ \A i \in 1..Len(table.rows) :
         LET row == table.rows[i]
         IN  /\ entriesOf(row.actionEntries, TRUE) = edgesOf(states[i], Terminal)
             /\ entriesOf(row.gotoEntries, TRUE) = edgesOf(states[i], NonTerminal)
             /\ entriesOf(row.gotoEntries, FALSE) = {}
             /\ entriesOf(row.actionEntries, FALSE) = reductionsOf(states[i])
             /\ \A x \in entriesOf(row.actionEntries, TRUE) \cup entriesOf(row.gotoEntries, TRUE) :
                  x[2] \in 0..(Len(table.rows) - 1)
             /\ \A x \in entriesOf(row.actionEntries, FALSE) :
                  x[2] \in 0..(Len(rules) - 1)

\* a returned table with a row that shifts and reduces and a row with gotos
C27_Witness ==
  /\ tableJustReturned
  /\ \E i \in 1..Len(table.rows) :
       /\ entriesOf(table.rows[i].actionEntries, TRUE) # {}
       /\ \E x \in entriesOf(table.rows[i].actionEntries, FALSE) : x[2] > 0
  /\ \E i \in 2..Len(table.rows) : table.rows[i].gotoEntries # <<>>

\* the numbering of the states as it stands
numbered ==
  /\ \A k \in 1..Len(states) : stateHeap[states[k]].index = k - 1
  /\ \A k, m \in 1..Len(states) : k # m => states[k] # states[m]
  /\ \A s \in 1..Len(stateHeap) : s \notin Range(states) => stateHeap[s].index = -1
  /\ states # <<>> =>
       LET seed == stateHeap[states[1]].itemSet[1]
       IN  /\ seed.rule = rules[1]
           /\ seed.pos = 0
           /\ "END" \in Range(seed.lookAheadSet)
  /\ Len(table.rows) <= Len(states)
  /\ pc = "rows" => Len(table.rows) = rowIdx - 1
  /\ \A i \in 1..Len(table.rows) :
       rowComplete(i) =>
         /\ entriesOf(table.rows[i].actionEntries, TRUE) = edgesOf(states[i], Terminal)
         /\ entriesOf(table.rows[i].gotoEntries, TRUE) = edgesOf(states[i], NonTerminal)

\* C28: on a fresh generator the k-th admitted state has index k - 1 at every
\* point of the construction and after it, an admitted state stays where it
\* is in the list and keeps its index, the state seeded with the root rule,
\* dot 0 and END has index 0, and row i of the table is the row of the state
\* of index i.
C28_StateNumbering ==
  /\ []numbered
  /\ [][\A k \in 1..Len(states) :
          /\ Len(states') >= k
          /\ states'[k] = states[k]
          /\ stateHeap'[states[k]].index = stateHeap[states[k]].index]_vars

\* the 22 states of the arithmetic grammar are numbered and have rows; states
\* that were not admitted lie between them on the heap
C28_Witness ==
  /\ tableJustReturned
  /\ Len(states) = 22
  /\ Len(stateHeap) > 22
  /\ stateHeap[states[22]].index = 21
  /\ \E k \in 1..Len(states) : states[k] # k

(***************************************************************************)
(* The parse stack.                                                        *)
(***************************************************************************)
\* states and symbols alternate, a row index at the bottom and on top
stackWellFormed(st) ==
  /\ Len(st) % 2 = 1
  /\ st[1] = StateEl(0)
  /\ \A i \in 1..Len(st) :
       IF i % 2 = 1
         THEN st[i].kind = "state" /\ st[i].num \in 0..(Len(table.rows) - 1)
         ELSE st[i].kind \in {"tok", "sym"}

\* the step made a shift, a reduction of the rule of index r
shifted == actions' # actions /\ actions'[Len(actions')].kind = "shift"
reduced(r) == actions' = Append(actions, [kind |-> "reduce", value |-> r])

\* C29: at the head of every iteration of the parse loop the stack has odd
\* length, state 0 at its bottom, row indices of the table at the places of
\* states and tokens or non-terminal names between them; a shift pushes the
\* token and then the target state, nothing else; a reduction of a rule other
\* than rule 0 with k items takes exactly the 2k topmost elements off and
\* pushes the rule's left-hand side and then a state.
C29_StackDiscipline ==
  /\ [](pc = "parse" => stackWellFormed(stack))
  /\ [][pc = "parse" =>
          /\ shifted =>
               /\ Len(stack') = Len(stack) + 2
               /\ SubSeq(stack', 1, Len(stack)) = stack
               /\ stack'[Len(stack) + 1] = TokEl(currentToken)
               /\ stack'[Len(stack) + 2] = StateEl(actions'[Len(actions')].value)
          /\ \A r \in 1..(Len(rules) - 1) :
               reduced(r) =>
                 LET k == Len(Rules[r + 1].rhs)
                     low == Len(stack) - 2 * k
                 IN  /\ low >= 1
                     /\ Len(stack') = low + 2
                     /\ SubSeq(stack', 1, low) = SubSeq(stack, 1, low)
                     /\ stack'[low + 1] = SymEl(Rules[r + 1].lhs)
                     /\ stack'[low + 2].kind = "state"]_vars

\* parse runs on a table that calcTable returned
onReturnedTable == result.op = "parse" /\ lastCalc.kind = "ok"

\* C30: on a table that calcTable returned on a fresh generator, whenever
\* parse is about to reduce a rule other than rule 0 with k items, the stack
\* holds 2k elements above its bottom state and the row of the state the pop
\* uncovers has a goto entry for the rule's left-hand side; so no parse ends
\* on a missing goto entry.
C30_GotoNeverMisses ==
  onReturnedTable =>
    /\ \A r \in 1..(Len(rules) - 1) :
         aboutToReduce(r) =>
           LET k == Len(Rules[r + 1].rhs)
               low == Len(stack) - 2 * k
           IN  /\ low >= 1
               /\ stack[low].kind = "state"
               /\ stack[low].num \in 0..(Len(table.rows) - 1)
               /\ Rules[r + 1].lhs \in DOMAIN table.rows[stack[low].num + 1].gotoEntries
    /\ parseEnded => result.kind \in {"ok", "LexerError"}

\* parse has reduced a rule of three items other than rule 0 and stands in
\* the state the goto entry gave
C30_Witness ==
  /\ onReturnedTable
  /\ pc = "parse"
  /\ actions # <<>>
  /\ LET a == actions[Len(actions)]
     IN  /\ a.kind = "reduce"
         /\ a.value # 0
         /\ Len(Rules[a.value + 1].rhs) = 3
         /\ stack[Len(stack) - 1] = SymEl(Rules[a.value + 1].lhs)
         /\ stack[Len(stack)] =
              StateEl(table.rows[stack[Len(stack) - 2].num + 1]
                        .gotoEntries[Rules[a.value + 1].lhs].value)

(***************************************************************************)
(* Termination.  calcTable and parse are synchronous: once called, the     *)
(* call takes the next iteration of its loop until it returns, throws or   *)
(* ends the process, so every loop step is weakly fair.  A worklist step   *)
(* can be taken exactly when the worklist holds a state; its fairness is   *)
(* written with that condition in place of ENABLED <<WorklistStep>>_vars.  *)
(***************************************************************************)
worklistRuns == pc = "worklist" /\ Q # <<>>

WorklistFair == []<>(~worklistRuns) \/ []<><<WorklistStep>>_vars

SpecFair ==
  /\ Init
  /\ [][Next]_vars
  /\ WorklistFair
  /\ WF_vars(BeginRows)
  /\ WF_vars(RowStep)
  /\ WF_vars(ParseStep)

\* the FIRST maps after each pass of the loop of calcFirst
RECURSIVE firstPasses(_, _)
firstPasses(f, rs) ==
  LET pass == FoldSeq(firstStep, [first |-> f, changed |-> FALSE], rs)
  IN  IF pass.changed THEN <<pass.first>> \o firstPasses(pass.first, rs)
      ELSE <<pass.first>>

\* the number of elements of all sets of a FIRST map
firstSize(f) ==
  LET add(acc, rule) == IF rule.lhs \in acc THEN acc ELSE acc \cup {rule.lhs}
      nts == {Rules[i].lhs : i \in 1..Len(rules)}
      RECURSIVE sum(_)
      sum(X) == IF X = {} THEN 0
                ELSE LET x == CHOOSE y \in X : TRUE
                     IN  Len(f[x]) + sum(X \ {x})
  IN  sum(nts)

\* FIRST sets only grow within the terminals of the rules, every pass but
\* the last one adds an element
firstLoopBounded ==
  LET f0 == FoldSeq(initFirst, <<>>, Rules)
      ps == <<f0>> \o firstPasses(f0, Rules)
      nts == {Rules[i].lhs : i \in 1..Len(rules)}
  IN  /\ \A i \in 2..Len(ps) :
           /\ DOMAIN ps[i] = nts
           /\ \A n \in nts :
                /\ Range(ps[i - 1][n]) \subseteq Range(ps[i][n])
                /\ Range(ps[i][n]) \subseteq terminals
           /\ i < Len(ps) => firstSize(ps[i]) > firstSize(ps[i - 1])
      /\ Len(ps) - 1 <= 1 + Cardinality(nts) * Cardinality(terminals)
      /\ first = ps[Len(ps)]

\* the item sets after each pass of the closure loop of calcItemSet
RECURSIVE closurePasses(_)
closurePasses(itemSet) ==
  LET after == FoldSeq(addItem, itemSet, closureNewItems(itemSet))
  IN  IF Len(after) > Len(itemSet) THEN <<after>> \o closurePasses(after)
      ELSE <<after>>

\* the (rule, dot) pairs of an item set
cores(itemSet) == {<<itemSet[i].rule, itemSet[i].pos>> : i \in 1..Len(itemSet)}

\* the number of (rule, dot) pairs of the rules
RECURSIVE corePairs(_)
corePairs(rs) == IF rs = <<>> THEN 0 ELSE Len(Head(rs).rhs) + 1 + corePairs(Tail(rs))

\* the cores of a state only grow within the (rule, dot) pairs of the rules,
\* every pass but the last one adds a core
closureLoopBounded(itemSet) ==
  LET ps == <<itemSet>> \o closurePasses(itemSet)
  IN  /\ \A i \in 2..Len(ps) :
           /\ cores(ps[i - 1]) \subseteq cores(ps[i])
           /\ Cardinality(cores(ps[i])) = Len(ps[i])
           /\ \A k \in 1..Len(ps[i]) :
                /\ ps[i][k].rule \in Range(rules)
                /\ ps[i][k].pos \in 0..Len(ruleHeap[ps[i][k].rule].rhs)
           /\ i < Len(ps) => Len(ps[i]) > Len(ps[i - 1])
      /\ Len(ps) - 1 <= 1 + corePairs(Rules)
      /\ ps[Len(ps)] = closureLoop(itemSet)

\* the popped state is admitted as a new distinct state
admits ==
  LET q == Q[Len(Q)]
  IN  /\ states' = Append(states, q)
      /\ \A k \in 1..Len(states) :
           ~stateEqual(stateHeap'[states[k]].itemSet, stateHeap'[q].itemSet)
      /\ Len(Q') >= Len(Q) - 1
      /\ SubSeq(Q', 1, Len(Q) - 1) = SubSeq(Q, 1, Len(Q) - 1)

\* the popped state is folded into an admitted one and nothing is enqueued
folds ==
  LET q == Q[Len(Q)]
  IN  /\ states' = states
      /\ \E k \in 1..Len(states) :
           stateEqual(stateHeap'[states[k]].itemSet, stateHeap'[q].itemSet)
      /\ Q' = SubSeq(Q, 1, Len(Q) - 1)

\* C31: calcTable terminates.  The FIRST loop stops since the sets only grow
\* within the terminals; the closure loop of the state a worklist iteration
\* pops stops since its cores only grow within the (rule, dot) pairs; each
\* worklist iteration admits a new distinct state or folds the popped state
\* and enqueues nothing (or ends the process); and a running calcTable
\* call always comes to its end.
C31_CalcTableTerminates ==
  /\ []((pc = "worklist" /\ states = <<>>) => firstLoopBounded)
  /\ []((pc = "worklist" /\ Q # <<>>) =>
          closureLoopBounded(stateHeap[Q[Len(Q)]].itemSet))
  /\ [][(pc = "worklist" /\ Q # <<>>) => (admits \/ folds \/ pc' = "exited")]_vars
  /\ (pc \in {"worklist", "rows"}) ~> (pc \in {"idle", "exited"})

\* calcTable has returned after a worklist loop that admitted states and
\* folded others, with a FIRST loop of more than one changing pass
C31_Witness ==
  /\ tableReturned
  /\ Len(states) >= 5
  /\ Len(stateHeap) > Len(states) + 2
  /\ Len(firstPasses(FoldSeq(initFirst, <<>>, Rules), Rules)) >= 3

(***************************************************************************)
(* The worklist under other disciplines.  A first generator builds its     *)
(* automaton as the code does, taking the newest state; a second one,      *)
(* given the same rules, takes the oldest state, or any state.             *)
(***************************************************************************)
Disciplines == {"fifo", "any"}

\* the grammars built under every order of the worklist
AnyOrderSources ==
  {SrcTwoStart, SrcSelf, SrcLeftRec, SrcRootRec, SrcReduceReduce, SrcShiftReduce,
   SrcUnitChain, SrcChainInside}

\* a second generator is made once calcTable of the first has ended
NewRun(d) ==
  /\ pc \in {"idle", "exited"}
  /\ twin = <<>>
  /\ result.op = "calcTable"
  /\ lastCalc.kind # "running"
  /\ d = "any" => \E src \in AnyOrderSources : rulesAre(src)
  /\ twin' = <<Outcome, d>>
  /\ pc' = "idle"
  /\ rules' = <<>>
  /\ first' = <<>>
  /\ states' = <<>>
  /\ table' = NullTable
  /\ Q' = <<>>
  /\ rowIdx' = 0
  /\ result' = Result("new", "ok", "")
  /\ calls' = 0
  /\ lastCalc' = Result("calcTable", "none", "")
  /\ firstTable' = <<>>
  /\ UNCHANGED <<ruleHeap, stateHeap, edgeHeap, callBacks, waiting>>
  /\ UNCHANGED parseVars

\* the worklist loop of the first generator
LifoStep == twin = <<>> /\ WorklistStep

\* one iteration of the worklist loop that takes the state at place i
WorklistTake(i) ==
  /\ pc = "worklist"
  /\ twin # <<>>
  /\ i \in 1..Len(Q)
  /\ twin[2] = "fifo" => i = 1
  /\ LET q == Q[i]
         rest == SubSeq(Q, 1, i - 1) \o SubSeq(Q, i + 1, Len(Q))
         c == calcItemSet(stateHeap, edgeHeap, q)
         a == addState(c.states, c.edges, states, q)
     IN  IF ~c.ok
           THEN /\ stateHeap' = c.states
                /\ edgeHeap' = c.edges
                /\ pc' = "exited"
                /\ result' = Result("calcTable", "exit", "")
                /\ UNCHANGED <<states, Q>>
           ELSE /\ stateHeap' = a.states
                /\ edgeHeap' = a.edges
                /\ states' = a.admitted
                /\ Q' = IF a.added THEN rest \o c.R ELSE rest
                /\ UNCHANGED <<pc, result>>
  /\ lastCalc' = result'
  /\ UNCHANGED <<ruleHeap, rules, first, table, callBacks, rowIdx, calls, firstTable, twin, waiting>>
  /\ UNCHANGED parseVars

NextOrder ==
  \/ \E g \in 1..Len(Sources) : TwinParseRules(g)
  \/ CalcTableBegin
  \/ LifoStep
  \/ \E i \in 1..Len(Q) : WorklistTake(i)
  \/ BeginRows
  \/ RowStep
  \/ \E d \in Disciplines : NewRun(d)

SpecOrder == Init /\ [][NextOrder]_vars

\* an item set as a set of items with sets of lookaheads
asSet(items) ==
  {[rule |-> items[k].rule, pos |-> items[k].pos, look |-> Range(items[k].look)] :
     k \in 1..Len(items)}

\* the place in an automaton of the state of an index
placeOf(A, index) == CHOOSE i \in 1..Len(A) : A[i].index = index

\* the item sets of an automaton and the labelled edges between them
shape(A) ==
  [sets |-> {asSet(A[i].items) : i \in 1..Len(A)},
   edges |-> UNION {{<<asSet(A[i].items), A[i].out[k].label,
                       asSet(A[placeOf(A, A[i].out[k].dest)].items)>> :
                        k \in 1..Len(A[i].out)} : i \in 1..Len(A)}]

\* the index in automaton B of the state that has the items of the state of
\* an index in automaton A
renumber(A, B, index) ==
  B[CHOOSE j \in 1..Len(B) : asSet(B[j].items) = asSet(A[placeOf(A, index)].items)].index

\* a table entry of the first table under the numbers of the second
renumberEntry(A, B, e) == IF e.shift THEN [e EXCEPT !.value = renumber(A, B, e.value)] ELSE e

\* table T2 of automaton B is table T1 of automaton A with the states renumbered
equalRenumbered(A, T1, B, T2) ==
  /\ Len(T1.rows) = Len(T2.rows)
  /\ Len(A) = Len(T1.rows)
  /\ Len(B) = Len(T2.rows)
  /\ renumber(A, B, 0) = 0
  /\ \A i, j \in 0..(Len(A) - 1) : i # j => renumber(A, B, i) # renumber(A, B, j)
  /\ \A i \in 0..(Len(A) - 1) :
       LET r1 == T1.rows[i + 1]
           r2 == T2.rows[renumber(A, B, i) + 1]
       IN  /\ DOMAIN r1.actionEntries = DOMAIN r2.actionEntries
           /\ DOMAIN r1.gotoEntries = DOMAIN r2.gotoEntries
           /\ \A k \in DOMAIN r1.actionEntries :
                r2.actionEntries[k] = renumberEntry(A, B, r1.actionEntries[k])
           /\ \A k \in DOMAIN r1.gotoEntries :
                r2.gotoEntries[k] = renumberEntry(A, B, r1.gotoEntries[k])

\* the worklist loop of the running or ended calcTable call has ended
worklistEnded == result.op = "calcTable" /\ ~table.isNull

\* C32: a generator that takes the oldest or any state from the worklist
\* ends the construction exactly when the code's last-in-first-out order
\* does, with as many admitted states, the same item sets and the same
\* labelled edges between them; it returns a table exactly when the code
\* does, and the tables are equal up to a renumbering of the states that
\* keeps the initial state at index 0.
C32_Confluence ==
  (twin # <<>> /\ Stripped(Rules) = twin[1].rules) =>
    LET t == twin[1]
    IN  /\ (result.op = "calcTable" /\ pc = "exited" /\ table.isNull) => t.table.isNull
        /\ worklistEnded =>
             /\ ~t.table.isNull
             /\ Len(automaton) = Len(t.automaton)
             /\ shape(automaton) = shape(t.automaton)
        /\ (result.op = "calcTable" /\ pc \in {"idle", "exited"}) =>
             /\ (lastCalc.kind = "ok") <=> (t.lastCalc.kind = "ok")
             /\ lastCalc.kind = "ok" =>
                  equalRenumbered(t.automaton, t.table, automaton, table)

\* a second generator that took its states in another order has returned a
\* table with the states under other numbers
C32_Witness ==
  /\ twin # <<>>
  /\ Stripped(Rules) = twin[1].rules
  /\ tableReturned
  /\ Len(states) >= 5
  /\ \E i \in 1..(Len(states) - 1) : renumber(twin[1].automaton, automaton, i) # i
  /\ table # twin[1].table

\* parse runs on a table that calcTable returned for an epsilon-free grammar
parsing == pc = "parse" /\ lastCalc.kind = "ok" /\ epsilonFree(Rules)

\* the reductions made since the last shift
RECURSIVE reductionsInARow(_)
reductionsInARow(as) ==
  IF as = <<>> \/ as[Len(as)].kind = "shift" THEN 0
  ELSE 1 + reductionsInARow(SubSeq(as, 1, Len(as) - 1))

\* the tokens consumed so far
shifts == Len(SelectSeq(actions, LAMBDA a : a.kind = "shift"))

\* C33: on a table that calcTable returned for an epsilon-free grammar, each
\* iteration of the parse loop consumes a token, makes a reduction or ends
\* the call; the reductions made in a row stay within the number of rules
\* for each token consumed; a call that returns has just reduced rule 0, any
\* other ends with an error; and every parse call comes to its end.
C33_ParseTerminates ==
  /\ [](parsing => reductionsInARow(actions) <= Len(rules) * shifts)
  /\ [][parsing =>
          \/ pos' = pos + 1 /\ shifted /\ Len(actions') = Len(actions) + 1
          \/ pos' = pos /\ \E r \in 0..(Len(rules) - 1) : reduced(r)
          \/ pc' = "idle" /\ result'.op = "parse" /\ result'.kind # "running"]_vars
  /\ []((parseEnded /\ lastCalc.kind = "ok" /\ epsilonFree(Rules)) =>
          IF result.kind = "ok"
            THEN /\ actions # <<>>
                 /\ actions[Len(actions)] = [kind |-> "reduce", value |-> 0]
            ELSE result.kind \in {"LexerError", "LR1Error"})
  /\ parsing ~> parseEnded

\* parse has returned after reductions in a row on one token, and another
\* parse of tokens outside the language has ended with an error
C33_Witness ==
  /\ parseEnded
  /\ lastCalc.kind = "ok"
  /\ epsilonFree(Rules)
  /\ result.kind = "ok"
  /\ Len(input) >= 3
  /\ reductionsInARow(actions) >= 3

====
